---- MODULE Spec2Model ----
(***************************************************************************)
(* Model of the portable AI chatbot: configuration accessor, provider      *)
(* implementations and factory, the CLI session (chatbot.py) and the       *)
(* Telegram bridge (telegram_bot.py).                                      *)
(*                                                                         *)
(* Text that the code trims, lower-cases or stores as message content is   *)
(* a tuple of one-character strings, so that "" is <<>> and str.strip /    *)
(* str.lower are computed.  Names that are only compared (provider names,  *)
(* model names, keys) are TLA+ strings.  Temperatures are in tenths.       *)
(***************************************************************************)
EXTENDS Integers, Sequences, FiniteSets, TLC

VARIABLES
    frontend,              \* which program runs: "cli", "telegram", "direct"
    config,                \* Config.config, the loaded JSON document
    env,                   \* os.environ, as far as Config.api_key reads it
    reachable,             \* whether the Ollama server answers GET /api/tags
    sdk_installed,         \* whether the provider's SDK package can be imported
    file,                  \* config.json on disk, as Config._load_config finds it
    cfgPc,                 \* position of a Config object: "start", "loaded", "failed"
    answer,                \* what the last call on the Config object returned or raised
    wizPc,                 \* position of setup.py: the prompt it waits at, or how it ended
    current_step,          \* current_step of SetupWizard.run
    wizConfig,             \* SetupWizard.config, the document being built
    wizSettings,           \* the local settings of setup_advanced_settings
    overwrite,             \* the answer run got at the overwrite prompt, <<>> before it
    wizWrites,             \* how often save_config opened config.json for writing
    provider,              \* the AIProvider instance (NoProvider before setup)
    cliPc,                 \* position of chatbot.py: "init", "running", "exited", "ended"
    conversation_history,  \* ChatBot.conversation_history
    tgPc,                  \* position of telegram_bot.py and of its one running handler
    tgUpdate,              \* the update the running Telegram handler processes
    user_conversations,    \* telegram_bot.user_conversations: user id -> history
    delivered,             \* per user, the messages the bridge delivered since the
                           \* user's last /clear, each with whether it entered the history
    log_file,              \* the conversation log: one block per save, as its line count
    chatInput,             \* the message list handed to provider.chat directly
    lastOp,                \* the operation that produced the current state
    lastCall               \* the invocation of provider.chat made by the last step, if any

vars == <<frontend, config, env, reachable, sdk_installed, file, cfgPc, answer, wizPc,
          current_step, wizConfig, wizSettings, overwrite, wizWrites, provider, cliPc, conversation_history,
          log_file, tgPc, tgUpdate, user_conversations, delivered, chatInput, lastOp,
          lastCall>>

(***************************************************************************)
(* Bounds                                                                  *)
(***************************************************************************)
\* longest message list handed to provider.chat directly
MaxMsgs == 3
\* most messages held in all histories of one front end together
MaxHist == 3
\* most Telegram messages whose typing indicator fails between two /clear
MaxDropped == 1
\* most blocks the 'save' command appends to the log file
MaxSaves == 1

(***************************************************************************)
(* Text                                                                    *)
(***************************************************************************)
LowerChar(c) ==
    CASE c = "Q" -> "q" [] c = "U" -> "u" [] c = "I" -> "i" [] c = "T" -> "t"
      [] c = "C" -> "c" [] c = "H" -> "h" [] c = "B" -> "b" [] c = "A" -> "a"
      [] c = "K" -> "k" [] c = "E" -> "e" [] c = "X" -> "x" [] c = "Y" -> "y"
      [] c = "N" -> "n" [] c = "O" -> "o" [] c = "S" -> "s"
      [] OTHER -> c

lower(s) == [i \in 1..Len(s) |-> LowerChar(s[i])]

IsSpace(c) == c = " "

RECURSIVE lstrip(_)
lstrip(s) == IF s # <<>> /\ IsSpace(Head(s)) THEN lstrip(Tail(s)) ELSE s

RECURSIVE rstrip(_)
rstrip(s) ==
    IF s # <<>> /\ IsSpace(s[Len(s)]) THEN rstrip(SubSeq(s, 1, Len(s) - 1)) ELSE s

strip(s) == rstrip(lstrip(s))

\* str.lower / str.upper over the provider names the model enumerates
LowerName(n) ==
    CASE n = "Groq" -> "groq" [] n = "OLLAMA" -> "ollama" [] OTHER -> n

(***************************************************************************)
(* Messages                                                                *)
(***************************************************************************)
Msg(role, content) == [role |-> role, content |-> content]

Roles == {"system", "user", "assistant"}

\* the reply texts a vendor can return
Replies == {<<"o", "k">>}

(***************************************************************************)
(* ai_providers.py: request formatting                                     *)
(***************************************************************************)
NoProvider == [name |-> "none"]

\* client.chat.completions.create(model=, messages=, temperature=, max_tokens=)
OpenAIRequest(p, messages) ==
    [model |-> p.model, messages |-> messages,
     temperature |-> p.temperature, max_tokens |-> p.max_tokens]

GroqRequest(p, messages) ==
    [model |-> p.model, messages |-> messages,
     temperature |-> p.temperature, max_tokens |-> p.max_tokens]

\* variant: only a leading system message is split off
AnthropicSplitLeading(messages, system_message, user_messages) ==
    IF messages # <<>> /\ Head(messages).role = "system"
    THEN [system |-> Head(messages).content, messages |-> Tail(messages)]
    ELSE [system |-> system_message, messages |-> messages]

\* the for loop of AnthropicProvider.chat, with its two accumulators
RECURSIVE AnthropicSplit(_, _, _)
AnthropicSplit(messages, system_message, user_messages) ==
    IF messages = <<>>
    THEN [system |-> system_message, messages |-> user_messages]
    ELSE LET msg == Head(messages) IN
         IF msg.role = "system"
         THEN AnthropicSplit(Tail(messages), msg.content, user_messages)
         ELSE AnthropicSplit(Tail(messages), system_message, Append(user_messages, msg))

AnthropicRequest(p, messages) ==
    LET split == AnthropicSplit(messages, <<>>, <<>>) IN
    [model |-> p.model, system |-> split.system, messages |-> split.messages,
     temperature |-> p.temperature, max_tokens |-> p.max_tokens]

\* variant: an earlier user message moves to the chat history as a USER entry
RECURSIVE CohereSplitKeepUsers(_, _, _)
CohereSplitKeepUsers(messages, chat_history, message_text) ==
    IF messages = <<>>
    THEN [chat_history |-> chat_history, message |-> message_text]
    ELSE LET msg == Head(messages) IN
         IF msg.role = "system"
         THEN CohereSplitKeepUsers(Tail(messages), chat_history, message_text)
         ELSE IF msg.role = "user"
         THEN CohereSplitKeepUsers(Tail(messages),
                  IF message_text = <<>> THEN chat_history
                  ELSE Append(chat_history, [role |-> "USER", message |-> message_text]),
                  msg.content)
         ELSE IF msg.role = "assistant"
         THEN CohereSplitKeepUsers(Tail(messages),
                  Append(chat_history, [role |-> "CHATBOT", message |-> msg.content]),
                  message_text)
         ELSE CohereSplitKeepUsers(Tail(messages), chat_history, message_text)

\* the for loop of CohereProvider.chat, with its two accumulators
RECURSIVE CohereSplit(_, _, _)
CohereSplit(messages, chat_history, message_text) ==
    IF messages = <<>>
    THEN [chat_history |-> chat_history, message |-> message_text]
    ELSE LET msg == Head(messages) IN
         IF msg.role = "system"
         THEN CohereSplit(Tail(messages), chat_history, message_text)
         ELSE IF msg.role = "user"
         THEN CohereSplit(Tail(messages), chat_history, msg.content)
         ELSE IF msg.role = "assistant"
         THEN CohereSplit(Tail(messages),
                  Append(chat_history, [role |-> "CHATBOT", message |-> msg.content]),
                  message_text)
         ELSE CohereSplit(Tail(messages), chat_history, message_text)

CohereRequest(p, messages) ==
    LET split == CohereSplit(messages, <<>>, <<>>) IN
    [model |-> p.model, message |-> split.message, chat_history |-> split.chat_history,
     temperature |-> p.temperature, max_tokens |-> p.max_tokens]

\* variant: the envelope asks for a streamed answer
OllamaPayloadStreaming(p, messages) ==
    [url |-> <<p.base_url, "/api/chat">>, model |-> p.model, messages |-> messages,
     stream |-> TRUE,
     options |-> [temperature |-> p.temperature, num_predict |-> p.max_tokens]]

\* the payload OllamaProvider.chat posts to {base_url}/api/chat
OllamaPayload(p, messages) ==
    [url |-> <<p.base_url, "/api/chat">>, model |-> p.model, messages |-> messages,
     stream |-> FALSE,
     options |-> [temperature |-> p.temperature, num_predict |-> p.max_tokens]]

FormatRequest(p, messages) ==
    CASE p.name = "openai"    -> OpenAIRequest(p, messages)
      [] p.name = "anthropic" -> AnthropicRequest(p, messages)
      [] p.name = "cohere"    -> CohereRequest(p, messages)
      [] p.name = "ollama"    -> OllamaPayload(p, messages)
      [] p.name = "groq"      -> GroqRequest(p, messages)

(***************************************************************************)
(* ai_providers.py: the network call and the reply                         *)
(***************************************************************************)
\* what one network call can do: answer with the reply field, fail in
\* transport (connection, timeout), answer with an HTTP/API error, or
\* answer successfully with a body that lacks the reply field
NetOutcomes == {"ok", "transport_error", "api_error", "missing_field"}

Returned(text) == [kind |-> "return", text |-> text, exc |-> "", prefix |-> ""]
Raised(exc, prefix) == [kind |-> "raise", text |-> <<>>, exc |-> exc, prefix |-> prefix]

\* try: ... return response.choices[0].message.content
\* except Exception as e: raise Exception(f"<Vendor> API error: {e}")
SdkResult(vendor, net, reply) ==
    IF net = "ok" THEN Returned(reply) ELSE Raised("Exception", vendor)

\* requests.post / raise_for_status / response.json()["message"]["content"],
\* with only requests.exceptions.RequestException caught and wrapped: the
\* KeyError of a body without "message" leaves chat as it is
OllamaResult(net, reply) ==
    CASE net = "ok" -> Returned(reply)
      [] net \in {"transport_error", "api_error"} -> Raised("Exception", "Ollama API error")
      [] net = "missing_field" -> Raised("KeyError", "")

ChatResult(p, net, reply) ==
    CASE p.name = "openai"    -> SdkResult("OpenAI API error", net, reply)
      [] p.name = "anthropic" -> SdkResult("Anthropic API error", net, reply)
      [] p.name = "cohere"    -> SdkResult("Cohere API error", net, reply)
      [] p.name = "ollama"    -> OllamaResult(net, reply)
      [] p.name = "groq"      -> SdkResult("Groq API error", net, reply)

\* every chat method issues its network call once, inside the try block
NetworkCalls(p) == 1

NoCall == [called |-> FALSE]

\* one invocation of provider.chat(messages): the list it was given, that
\* list and the provider after the call, the request sent and the result
ProviderChat(p, messages, net, reply) ==
    [called |-> TRUE, messages |-> messages, messages_after |-> messages,
     provider_after |-> p, request |-> FormatRequest(p, messages),
     calls |-> NetworkCalls(p), net |-> net, result |-> ChatResult(p, net, reply)]

(***************************************************************************)
(* config_manager.py                                                       *)
(***************************************************************************)
\* JSON values carry their type, so that isinstance(value, dict) is decidable
JStr(s)  == [t |-> "str",  v |-> s]
JNum(n)  == [t |-> "num",  v |-> n]
JText(s) == [t |-> "text", v |-> s]
JBool(b) == [t |-> "bool", v |-> b]
JDict(f) == [t |-> "dict", v |-> f]
JNull    == [t |-> "null", v |-> 0]

JList(s) == [t |-> "list", v |-> s]

EmptyDict == [k \in {} |-> JNull]

RequiredFields == <<"bot_name", "bot_instructions", "api_provider", "model">>

\* config.json: absent, not JSON, or a JSON document
AbsentFile == [exists |-> FALSE, wellformed |-> FALSE, doc |-> JNull]
MalformedFile == [exists |-> TRUE, wellformed |-> FALSE, doc |-> JNull]
JsonFile(j) == [exists |-> TRUE, wellformed |-> TRUE, doc |-> j]
NoFile == AbsentFile

\* the one root string of the model that holds every required name
AllNamesString == "bot_name bot_instructions api_provider model"

\* Python's `field in config` on what json.load returned: a key of a
\* mapping, an element of a list, a substring of a string, and a TypeError
\* on a number, a boolean or null
Contains(j, field) ==
    CASE j.t = "dict" -> field \in DOMAIN j.v
      [] j.t = "list" -> \E i \in 1..Len(j.v) : j.v[i] = JStr(field)
      [] j.t = "str"  -> j.v = AllNamesString
      [] OTHER -> FALSE

Iterable(j) == j.t \in {"dict", "list", "str"}

LoadResult(outcome, field, value) ==
    [outcome |-> outcome, field |-> field, value |-> value]

\* the loop over required_fields: the first name that is missing
RECURSIVE FirstMissing(_, _)
FirstMissing(j, fields) ==
    IF fields = <<>> THEN ""
    ELSE IF ~Contains(j, Head(fields)) THEN Head(fields)
    ELSE FirstMissing(j, Tail(fields))

\* Config._load_config
load_config(f) ==
    IF ~f.exists THEN LoadResult("FileNotFoundError", "", JNull)
    ELSE IF ~f.wellformed THEN LoadResult("ValueError", "", JNull)
    ELSE IF ~Iterable(f.doc) THEN LoadResult("TypeError", "", JNull)
    ELSE IF FirstMissing(f.doc, RequiredFields) # ""
    THEN LoadResult("ValueError", FirstMissing(f.doc, RequiredFields), JNull)
    ELSE LoadResult("ok", "", f.doc)

\* what a call on the Config object returned (outcome "ok") or raised
Answer(op, outcome, key, default, value) ==
    [op |-> op, outcome |-> outcome, key |-> key, default |-> default, value |-> value]

NoAnswer == Answer("none", "", <<>>, JNull, JNull)

\* Python truthiness of a JSON value
Truthy(j) ==
    CASE j.t = "bool" -> j.v
      [] j.t = "num"  -> j.v # 0
      [] j.t = "str"  -> j.v # ""
      [] j.t = "text" -> j.v # <<>>
      [] j.t = "dict" -> DOMAIN j.v # {}
      [] j.t = "null" -> FALSE

\* variant: a stored value that is falsy gives way to the default
RECURSIVE GetPathOrDefault(_, _, _)
GetPathOrDefault(value, keys, default) ==
    IF keys = <<>> THEN (IF Truthy(value) THEN value ELSE default)
    ELSE IF value.t = "dict" /\ Head(keys) \in DOMAIN value.v
         THEN GetPathOrDefault(value.v[Head(keys)], Tail(keys), default)
         ELSE default

\* the loop of Config.get over key.split('.')
RECURSIVE GetPath(_, _, _)
GetPath(value, keys, default) ==
    IF keys = <<>> THEN value
    ELSE IF value.t = "dict" /\ Head(keys) \in DOMAIN value.v
         THEN GetPath(value.v[Head(keys)], Tail(keys), default)
         ELSE default

\* key.split('.') on a dotted key given as its names and dots: "a.b" is
\* <<"a", ".", "b">>, and an empty name stands on either side of a stray dot
RECURSIVE split(_)
split(key) ==
    IF key = <<>> THEN <<"">>
    ELSE IF Head(key) = "." THEN <<"">> \o split(Tail(key))
    ELSE IF Tail(key) = <<>> THEN <<Head(key)>>
    ELSE <<Head(key)>> \o split(Tail(Tail(key)))

get(cfg, key, default) == GetPath(JDict(cfg), split(key), default)

bot_name(cfg) == get(cfg, <<"bot_name">>, JStr("Assistant")).v

bot_instructions(cfg) ==
    get(cfg, <<"bot_instructions">>, JText(<<"Y", "o", "u">>)).v

api_provider(cfg) == get(cfg, <<"api_provider">>, JStr("openai")).v

model(cfg) == get(cfg, <<"model">>, JStr("gpt-3.5-turbo")).v

UpperName(n) ==
    CASE n = "openai" -> "OPENAI" [] n = "anthropic" -> "ANTHROPIC"
      [] n = "cohere" -> "COHERE" [] n = "ollama" -> "OLLAMA" [] n = "OLLAMA" -> "OLLAMA"
      [] n = "groq" -> "GROQ" [] n = "Groq" -> "GROQ" [] n = "foo" -> "FOO"

getenv(e, name, default) == IF name \in DOMAIN e THEN e[name] ELSE default

\* the names Config.api_key probes, as <<prefix, suffix>>
EnvNamesOf(cfg) ==
    LET prov == UpperName(api_provider(cfg)) IN
    << <<prov, "_API_KEY">>, <<prov, "API_KEY">>, <<"", "API_KEY">> >>

\* variant: the last variable that is set wins
RECURSIVE ProbeEnvLast(_, _, _)
ProbeEnvLast(e, env_names, key) ==
    IF env_names = <<>> THEN key
    ELSE LET found == getenv(e, env_names[Len(env_names)], "") IN
         IF found # "" THEN found
         ELSE ProbeEnvLast(e, SubSeq(env_names, 1, Len(env_names) - 1), found)

RECURSIVE ProbeEnv(_, _, _)
ProbeEnv(e, env_names, key) ==
    IF env_names = <<>> THEN key
    ELSE LET found == getenv(e, Head(env_names), "") IN
         IF found # "" THEN found ELSE ProbeEnv(e, Tail(env_names), found)

api_key(cfg, e) ==
    LET key == get(cfg, <<"api_key">>, JStr("")) IN
    IF ~Truthy(key) THEN ProbeEnv(e, EnvNamesOf(cfg), key.v) ELSE key.v

\* float(x) and int(x) of a JSON value: the number, or the ValueError of a
\* string that is no numeral (the model's strings are none), or the TypeError
\* of null, a list or a mapping.  float(True) is 1.0, ten tenths.
FloatOf(j) ==
    CASE j.t = "num"  -> [ok |-> TRUE, v |-> j.v, error |-> ""]
      [] j.t = "bool" -> [ok |-> TRUE, v |-> IF j.v THEN 10 ELSE 0, error |-> ""]
      [] j.t \in {"str", "text"} -> [ok |-> FALSE, v |-> 0, error |-> "ValueError"]
      [] OTHER -> [ok |-> FALSE, v |-> 0, error |-> "TypeError"]

IntOf(j) ==
    CASE j.t = "num"  -> [ok |-> TRUE, v |-> j.v, error |-> ""]
      [] j.t = "bool" -> [ok |-> TRUE, v |-> IF j.v THEN 1 ELSE 0, error |-> ""]
      [] j.t \in {"str", "text"} -> [ok |-> FALSE, v |-> 0, error |-> "ValueError"]
      [] OTHER -> [ok |-> FALSE, v |-> 0, error |-> "TypeError"]

\* float(self.get('temperature', 0.7)), in tenths
temperature(cfg) == FloatOf(get(cfg, <<"temperature">>, JNum(7))).v

max_tokens(cfg) == IntOf(get(cfg, <<"max_tokens">>, JNum(150))).v

\* the exception the two numeric properties raise, "" when both convert;
\* temperature is read first by AIProvider.__init__ and by validate
ConversionError(cfg) ==
    LET t == FloatOf(get(cfg, <<"temperature">>, JNum(7)))
        x == IntOf(get(cfg, <<"max_tokens">>, JNum(150))) IN
    IF ~t.ok THEN t.error ELSE x.error

\* Config.validate when neither property raises: the list of issues
validate(cfg, e) ==
    (IF api_key(cfg, e) = "" THEN <<"No API key found">> ELSE <<>>)
    \o (IF temperature(cfg) < 0 \/ temperature(cfg) > 20
        THEN <<"Temperature should be between 0 and 2.">> ELSE <<>>)
    \o (IF max_tokens(cfg) < 1 THEN <<"Max tokens should be greater than 0.">> ELSE <<>>)

(***************************************************************************)
(* ai_providers.py: construction, validation, factory                      *)
(***************************************************************************)
PROVIDERS == {"openai", "anthropic", "cohere", "ollama", "groq"}

\* ', '.join(cls.PROVIDERS.keys()): the names in the order of the registry
AvailableNames == <<"openai", "anthropic", "cohere", "ollama", "groq">>

\* variant: the instance is bound to the defaults of the two numbers
NewProviderDefaults(name, cfg, e) ==
    [name |-> name, api_key |-> api_key(cfg, e), model |-> model(cfg),
     temperature |-> 7, max_tokens |-> 150,
     base_url |-> IF name = "ollama"
                  THEN get(cfg, <<"ollama_url">>, JStr("http://localhost:11434")).v
                  ELSE ""]

\* AIProvider.__init__, and OllamaProvider.__init__ for base_url
NewProvider(name, cfg, e) ==
    [name |-> name, api_key |-> api_key(cfg, e), model |-> model(cfg),
     temperature |-> temperature(cfg), max_tokens |-> max_tokens(cfg),
     base_url |-> IF name = "ollama"
                  THEN get(cfg, <<"ollama_url">>, JStr("http://localhost:11434")).v
                  ELSE ""]

OpenAIModels == {"gpt-3.5-turbo", "gpt-4", "gpt-4-turbo-preview", "gpt-3.5-turbo-16k"}

AnthropicModels ==
    {"claude-3-sonnet-20240229", "claude-3-opus-20240229", "claude-3-haiku-20240307"}

CohereModels == {"command", "command-light", "command-nightly"}

GroqModels ==
    {"groq/compound", "groq/compound-mini", "llama-3.3-70b-versatile",
     "llama-3.1-8b-instant", "gemma2-9b-it", "deepseek-r1-distill-llama-70b",
     "meta-llama/llama-4-maverick-17b-128e-instruct",
     "meta-llama/llama-4-scout-17b-16e-instruct", "openai/gpt-oss-120b",
     "openai/gpt-oss-20b", "qwen/qwen3-32b", "moonshotai/kimi-k2-instruct",
     "moonshotai/kimi-k2-instruct-0905"}

\* OpenAIProvider / AnthropicProvider / CohereProvider .validate_config
KeyedValidateConfig(p, keyIssue, valid_models, modelIssue) ==
    (IF p.api_key = "" THEN <<keyIssue>> ELSE <<>>)
    \o (IF p.model \notin valid_models THEN <<modelIssue>> ELSE <<>>)

GroqValidateConfig(p) ==
    (IF p.api_key = "" THEN <<"Groq API key is required">> ELSE <<>>)
    \o (IF p.model \notin GroqModels
        THEN <<"Note: Model not in common list. If it's a new Groq model, ignore this message.">>
        ELSE <<>>)

\* GET {base_url}/api/tags answered or not
OllamaValidateConfig(p, isReachable) ==
    IF isReachable THEN <<>> ELSE <<"Cannot connect to Ollama">>

validate_config(p, isReachable) ==
    CASE p.name = "openai" ->
            KeyedValidateConfig(p, "OpenAI API key is required", OpenAIModels,
                                "Model may not be valid for OpenAI")
      [] p.name = "anthropic" ->
            KeyedValidateConfig(p, "Anthropic API key is required", AnthropicModels,
                                "Model may not be valid for Anthropic")
      [] p.name = "cohere" ->
            KeyedValidateConfig(p, "Cohere API key is required", CohereModels,
                                "Model may not be valid for Cohere")
      [] p.name = "ollama" -> OllamaValidateConfig(p, isReachable)
      [] p.name = "groq" -> GroqValidateConfig(p)

\* variant: the configured name is looked up as it is written
create_provider_exact(cfg, e, installed) ==
    LET provider_name == api_provider(cfg) IN
    IF provider_name \notin PROVIDERS
    THEN [ok |-> FALSE, error |-> "unknown_provider", class |-> "none",
          available |-> AvailableNames, instance |-> NoProvider]
    ELSE [ok |-> TRUE, error |-> "", class |-> provider_name, available |-> <<>>,
          instance |-> NewProvider(provider_name, cfg, e)]

\* the packages the provider classes import in their constructors; Ollama
\* is reached with requests, imported with the module
NeedsSdk(name) == name # "ollama"

\* ProviderFactory.create_provider: the ValueError of an unknown name, or
\* what the constructor of the registered class does: the conversion error
\* of AIProvider.__init__, the ImportError of a missing package, the instance
create_provider(cfg, e, installed) ==
    LET provider_name == LowerName(api_provider(cfg)) IN
    IF provider_name \notin PROVIDERS
    THEN [ok |-> FALSE, error |-> "unknown_provider", class |-> "none",
          available |-> AvailableNames, instance |-> NoProvider]
    ELSE IF ConversionError(cfg) # ""
    THEN [ok |-> FALSE, error |-> "conversion_error", class |-> provider_name,
          available |-> <<>>, instance |-> NoProvider]
    ELSE IF NeedsSdk(provider_name) /\ ~installed
    THEN [ok |-> FALSE, error |-> "import_error", class |-> provider_name,
          available |-> <<>>, instance |-> NoProvider]
    ELSE [ok |-> TRUE, error |-> "", class |-> provider_name, available |-> <<>>,
          instance |-> NewProvider(provider_name, cfg, e)]

\* the dotted keys and defaults Config.get is called with
GetKeys ==
    {<<>>, <<"settings">>, <<"api_key">>, <<"missing">>,
     <<"settings", ".">>,
     <<"settings", ".", "save_conversation">>,
     <<"settings", ".", "missing">>,
     <<"bot_name", ".", "x">>,
     <<"missing", ".", "x">>,
     <<"settings", ".", "depth", ".", "x">>,
     <<"settings", ".", "save_conversation", ".", "x">>}

GetDefaults == {JNull, JBool(TRUE)}

wizVars == <<wizPc, current_step, wizConfig, wizSettings, overwrite, wizWrites>>

\* the state a call on the Config object leaves alone
configFrame == <<frontend, env, reachable, sdk_installed, file, wizVars, provider, cliPc,
                 conversation_history, log_file, tgPc, tgUpdate, user_conversations,
                 delivered, chatInput, lastOp, lastCall>>

\* Config.__init__
ConfigLoad ==
    /\ frontend = "config"
    /\ cfgPc = "start"
    /\ LET r == load_config(file) IN
       /\ answer' = Answer("load", r.outcome, <<>>, JStr(r.field), r.value)
       /\ config' = IF r.outcome = "ok" /\ r.value.t = "dict" THEN r.value.v ELSE config
       /\ cfgPc' = IF r.outcome # "ok" THEN "failed"
                   ELSE IF r.value.t = "dict" THEN "loaded" ELSE "loaded_other"
    /\ UNCHANGED configFrame

\* Config.get
ConfigGet ==
    /\ frontend = "config"
    /\ cfgPc = "loaded"
    /\ \E key \in GetKeys, default \in GetDefaults :
        answer' = Answer("get", "ok", key, default, get(config, key, default))
    /\ UNCHANGED <<configFrame, config, cfgPc>>

\* Config.api_key
ConfigApiKey ==
    /\ frontend = "config"
    /\ cfgPc = "loaded"
    /\ answer' = Answer("api_key", "ok", <<>>, JNull, JStr(api_key(config, env)))
    /\ UNCHANGED <<configFrame, config, cfgPc>>

\* Config.validate: the issues, or the exception of a numeric property
ConfigValidate ==
    /\ frontend = "config"
    /\ cfgPc = "loaded"
    /\ answer' = IF ConversionError(config) # ""
                 THEN Answer("validate", ConversionError(config), <<>>, JNull, JNull)
                 ELSE Answer("validate", "ok", <<>>, JNull, JList(validate(config, env)))
    /\ UNCHANGED <<configFrame, config, cfgPc>>

(***************************************************************************)
(* chatbot.py: the CLI session                                             *)
(***************************************************************************)
Op(op, outcome, user, input) ==
    [op |-> op, outcome |-> outcome, user |-> user, input |-> input, line |-> <<>>]

\* a step of handle_user_input: the line as typed and user_input, the line
\* after strip()
LineOp(op, outcome, line) ==
    [op |-> op, outcome |-> outcome, user |-> 0, input |-> strip(line), line |-> line]

NoOp == Op("none", "", 0, <<>>)

\* variant: the request is built in the history list itself
history_after_build_aliased(cfg, history) ==
    IF bot_instructions(cfg) # <<>>
    THEN <<Msg("system", bot_instructions(cfg))>> \o history
    ELSE history

\* the effect of building the request on self.conversation_history: the
\* list returned is a fresh one, so the history is not touched
history_after_build(cfg, history) == history

\* variant: the system message is appended after the history
get_messages_for_api_system_last(cfg, history) ==
    history \o (IF bot_instructions(cfg) # <<>>
                THEN <<Msg("system", bot_instructions(cfg))>>
                ELSE <<>>)

\* variant: the request is built before the user message is appended
get_messages_for_api_stale(cfg, history) ==
    (IF bot_instructions(cfg) # <<>>
     THEN <<Msg("system", bot_instructions(cfg))>>
     ELSE <<>>)
    \o SubSeq(history, 1, Len(history) - 1)

\* ChatBot.get_messages_for_api
get_messages_for_api(cfg, history) ==
    (IF bot_instructions(cfg) # <<>>
     THEN <<Msg("system", bot_instructions(cfg))>>
     ELSE <<>>)
    \o history

\* variant: the first message survives
clear_history_keep_first(history) ==
    IF history = <<>> THEN <<>> ELSE <<Head(history)>>

\* ChatBot.clear_history
clear_history(history) == <<>>

\* variant: a failed turn takes its user message back
history_after_chat_rollback(h, result) ==
    IF result.kind = "return"
    THEN Append(h, Msg("assistant", result.text))
    ELSE SubSeq(h, 1, Len(h) - 1)

\* variant: only the last exchange is kept
history_after_chat_window(h, result) ==
    IF result.kind = "return"
    THEN LET full == Append(h, Msg("assistant", result.text)) IN
         IF Len(full) > 2 THEN SubSeq(full, Len(full) - 1, Len(full)) ELSE full
    ELSE h

\* variant: the reply is stored whether provider.chat returned or raised
history_after_chat_reply_always(h, result) == Append(h, Msg("assistant", result.text))

\* variant: the reply is appended to a list of its own
history_after_chat_fresh(h, result) ==
    IF result.kind = "return"
    THEN <<Msg("assistant", result.text)>>
    ELSE h

\* the history when process_chat_message returns: h is the history with the
\* user message appended, result what provider.chat returned or raised
history_after_chat(h, result) ==
    IF result.kind = "return"
    THEN Append(h, Msg("assistant", result.text))
    ELSE h

\* variant: the commands are recognised in lower case only
CommandExact(line) ==
    LET user_input == strip(line) IN
    IF user_input \in {<<"q","u","i","t">>, <<"e","x","i","t">>, <<"b","y","e">>} THEN "quit"
    ELSE IF user_input = <<"c","l","e","a","r">> THEN "clear"
    ELSE IF user_input = <<"h","e","l","p">> THEN "help"
    ELSE IF user_input = <<"c","o","n","f","i","g">> THEN "config"
    ELSE IF user_input = <<"h","i","s","t","o","r","y">> THEN "history"
    ELSE IF user_input = <<"s","a","v","e">> THEN "save"
    ELSE IF user_input = <<>> THEN "empty"
    ELSE "chat"

\* the branch of handle_user_input a line takes
Command(line) ==
    LET user_input == strip(line) IN
    LET low == lower(user_input) IN
    IF low \in {<<"q","u","i","t">>, <<"e","x","i","t">>, <<"b","y","e">>} THEN "quit"
    ELSE IF low = <<"c","l","e","a","r">> THEN "clear"
    ELSE IF low = <<"h","e","l","p">> THEN "help"
    ELSE IF low = <<"c","o","n","f","i","g">> THEN "config"
    ELSE IF low = <<"h","i","s","t","o","r","y">> THEN "history"
    ELSE IF low = <<"s","a","v","e">> THEN "save"
    ELSE IF user_input = <<>> THEN "empty"
    ELSE "chat"

\* the lines typed at the prompt
CliLines ==
    { <<"q","u","i","t">>, <<" ","Q","U","I","T">>, <<"e","x","i","t">>, <<"b","y","e">>,
      <<"c","l","e","a","r">>, <<"C","l","e","a","r"," ">>,
      <<"h","e","l","p">>, <<"c","o","n","f","i","g">>, <<"h","i","s","t","o","r","y">>,
      <<"s","a","v","e">>, <<>>, <<" ">>,
      <<"h","i">>, <<" ","y","o"," ">> }

\* ChatBot.save_conversation: one block appended unless the history is
\* empty or the file cannot be written; a block is kept as the number of
\* "Role: content" lines written between its header and its footer
save_conversation(log, history, writeOk) ==
    IF history = <<>> THEN log
    ELSE IF writeOk THEN Append(log, Len(history))
    ELSE log

\* what save_conversation prints: nothing to save, saved, or the error
save_report(history, writeOk) ==
    IF history = <<>> THEN "nothing" ELSE IF writeOk THEN "saved" ELSE "error"

\* what the end of the session prints about saving: "" when it does not save
exit_report(cfg, history, writeOk) ==
    IF Truthy(get(cfg, <<"settings", ".", "save_conversation">>, JBool(TRUE))) /\ history # <<>>
    THEN save_report(history, writeOk)
    ELSE ""

\* variant: the end of the session saves whenever the setting allows it
SaveOnExitAnyHistory(cfg, log, history, writeOk) ==
    IF Truthy(get(cfg, <<"settings", ".", "save_conversation">>, JBool(TRUE)))
    THEN IF writeOk THEN Append(log, Len(history)) ELSE log
    ELSE log

\* if self.config.get('settings.save_conversation', True) and self.conversation_history
SaveOnExit(cfg, log, history, writeOk) ==
    IF Truthy(get(cfg, <<"settings", ".", "save_conversation">>, JBool(TRUE))) /\ history # <<>>
    THEN save_conversation(log, history, writeOk)
    ELSE log

envVars == <<frontend, config, env, reachable, sdk_installed, file, cfgPc, answer, wizVars>>
tgVars == <<tgPc, tgUpdate, user_conversations, delivered>>

\* ChatBot.__init__ / setup_provider: exit(1) on an unknown provider or
\* on any issue, otherwise the chat loop starts
CliStartup ==
    /\ frontend = "cli"
    /\ cliPc = "init"
    /\ LET created == create_provider(config, env, sdk_installed) IN
       IF ~created.ok
       THEN /\ provider' = provider
            /\ cliPc' = "exited"
            /\ lastOp' = Op("cli_startup", created.error, 0, created.available)
       ELSE LET issues == validate(config, env)
                          \o validate_config(created.instance, reachable) IN
            /\ provider' = created.instance
            /\ cliPc' = IF issues # <<>> THEN "exited" ELSE "running"
            /\ lastOp' = Op("cli_startup", IF issues # <<>> THEN "issues" ELSE "ok", 0, <<>>)
    /\ lastCall' = NoCall
    /\ UNCHANGED <<envVars, tgVars, conversation_history, log_file, chatInput>>

CliQuit ==
    /\ frontend = "cli"
    /\ cliPc = "running"
    /\ \E line \in CliLines, writeOk \in BOOLEAN :
        /\ Command(line) = "quit"
        /\ log_file' = SaveOnExit(config, log_file, conversation_history, writeOk)
        /\ lastOp' = LineOp("cli_quit", exit_report(config, conversation_history, writeOk), line)
    /\ cliPc' = "ended"
    /\ lastCall' = NoCall
    /\ UNCHANGED <<envVars, tgVars, provider, conversation_history, chatInput>>

\* KeyboardInterrupt or EOFError raised by input()
CliInterrupt ==
    /\ frontend = "cli"
    /\ cliPc = "running"
    /\ \E how \in {"KeyboardInterrupt", "EOFError"}, writeOk \in BOOLEAN :
        /\ log_file' = SaveOnExit(config, log_file, conversation_history, writeOk)
        /\ lastOp' = Op("cli_interrupt", exit_report(config, conversation_history, writeOk),
                         0, <<how>>)
    /\ cliPc' = "ended"
    /\ lastCall' = NoCall
    /\ UNCHANGED <<envVars, tgVars, provider, conversation_history, chatInput>>

CliClear ==
    /\ frontend = "cli"
    /\ cliPc = "running"
    /\ \E line \in CliLines :
        /\ Command(line) = "clear"
        /\ lastOp' = LineOp("cli_clear",
                            IF conversation_history # <<>> THEN "had_history"
                            ELSE "was_empty", line)
    /\ conversation_history' = clear_history(conversation_history)
    /\ lastCall' = NoCall
    /\ UNCHANGED <<envVars, tgVars, provider, cliPc, log_file, chatInput>>

\* help, config, history and the empty line only print
CliPrint ==
    /\ frontend = "cli"
    /\ cliPc = "running"
    /\ \E line \in CliLines :
        /\ Command(line) \in {"help", "config", "history", "empty"}
        /\ lastOp' = LineOp("cli_print", Command(line), line)
    /\ lastCall' = NoCall
    /\ UNCHANGED <<envVars, tgVars, provider, cliPc, conversation_history, log_file,
                   chatInput>>

CliSave ==
    /\ frontend = "cli"
    /\ cliPc = "running"
    /\ Len(log_file) < MaxSaves
    /\ \E line \in CliLines, writeOk \in BOOLEAN :
        /\ Command(line) = "save"
        /\ log_file' = save_conversation(log_file, conversation_history, writeOk)
        /\ lastOp' = LineOp("cli_save", save_report(conversation_history, writeOk), line)
    /\ lastCall' = NoCall
    /\ UNCHANGED <<envVars, tgVars, provider, cliPc, conversation_history, chatInput>>

\* process_chat_message
CliChat ==
    /\ frontend = "cli"
    /\ cliPc = "running"
    /\ Len(conversation_history) < MaxHist
    /\ \E line \in CliLines, net \in NetOutcomes, reply \in Replies :
        /\ Command(line) = "chat"
        /\ LET user_input == strip(line)
               h == Append(conversation_history, Msg("user", user_input))
               messages == get_messages_for_api(config, h)
               call == ProviderChat(provider, messages, net, reply)
           IN /\ lastCall' = call
              /\ provider' = call.provider_after
              /\ conversation_history' =
                     history_after_chat(history_after_build(config, h), call.result)
              /\ lastOp' = LineOp("cli_chat",
                                  IF call.result.kind = "return" THEN "ok" ELSE "fail",
                                  line)
    /\ UNCHANGED <<envVars, tgVars, cliPc, log_file, chatInput>>

(***************************************************************************)
(* telegram_bot.py: the Telegram bridge                                    *)
(*                                                                         *)
(* The Application is built without concurrent_updates, so one handler     *)
(* runs at a time; tgPc follows it from one await to the next.             *)
(***************************************************************************)
Users == {1, 2}

\* texts that are not commands (filters.TEXT & ~filters.COMMAND)
TgTexts == {<<"h","i">>, <<"y","o">>}

NoUpdate == [user |-> 0, text |-> <<>>, kind |-> "none"]

RECURSIVE SumLen(_, _)
SumLen(convs, users) ==
    IF users = {} THEN 0
    ELSE LET u == CHOOSE x \in users : TRUE IN
         Len(convs[u]) + SumLen(convs, users \ {u})

TotalMessages(convs) == SumLen(convs, DOMAIN convs)

NoneDelivered == [u \in Users |-> <<>>]

\* the delivered messages that did not enter a history, the one whose
\* handler is still at its typing indicator left out
RECURSIVE CountNotEntered(_, _)
CountNotEntered(d, users) ==
    IF users = {} THEN 0
    ELSE LET u == CHOOSE x \in users : TRUE IN
         Cardinality({i \in 1..Len(d[u]) : ~d[u][i].entered})
             + CountNotEntered(d, users \ {u})

Dropped(d) == CountNotEntered(d, DOMAIN d) - 1

\* if user_id not in user_conversations: user_conversations[user_id] = []
ensure_user(convs, user_id) ==
    IF user_id \notin DOMAIN convs
    THEN [u \in DOMAIN convs \cup {user_id} |-> IF u = user_id THEN <<>> ELSE convs[u]]
    ELSE convs

\* variant: /clear empties every history
clear_user_all(convs, user_id) == [u \in DOMAIN convs |-> <<>>]

\* if user_id in user_conversations: user_conversations[user_id] = []
clear_user(convs, user_id) ==
    IF user_id \in DOMAIN convs
    THEN [convs EXCEPT ![user_id] = <<>>]
    ELSE convs

\* variant: only the message just received is sent
tg_build_messages_latest(cfg, history) ==
    (IF bot_instructions(cfg) # <<>>
     THEN <<Msg("system", bot_instructions(cfg))>>
     ELSE <<>>)
    \o <<history[Len(history)]>>

\* the inline assembly of handle_message
tg_build_messages(cfg, history) ==
    (IF bot_instructions(cfg) # <<>>
     THEN <<Msg("system", bot_instructions(cfg))>>
     ELSE <<>>)
    \o history

\* TelegramChatBot.__init__: ValueError without a token, the factory's error
\* re-raised, otherwise the bot polls
TgStartup ==
    /\ frontend = "telegram"
    /\ tgPc = "init"
    /\ IF ~Truthy(get(config, <<"telegram_bot_token">>, JNull))
       THEN /\ provider' = provider
            /\ tgPc' = "exited"
            /\ lastOp' = Op("tg_startup", "no_token", 0, <<>>)
       ELSE LET created == create_provider(config, env, sdk_installed) IN
            /\ provider' = created.instance
            /\ tgPc' = IF created.ok THEN "idle" ELSE "exited"
            /\ lastOp' = Op("tg_startup", IF created.ok THEN "ok" ELSE created.error,
                            0, created.available)
    /\ lastCall' = NoCall
    /\ UNCHANGED <<envVars, delivered, cliPc, conversation_history, log_file, tgUpdate,
                   user_conversations, chatInput>>

\* start_command up to its await
TgStart ==
    /\ frontend = "telegram"
    /\ tgPc = "idle"
    /\ \E user_id \in Users :
        /\ user_conversations' = ensure_user(user_conversations, user_id)
        /\ tgUpdate' = [user |-> user_id, text |-> <<>>, kind |-> "start"]
        /\ lastOp' = Op("tg_start", "", user_id, <<>>)
    /\ tgPc' = "cmd_reply"
    /\ lastCall' = NoCall
    /\ UNCHANGED <<envVars, delivered, provider, cliPc, conversation_history, log_file, chatInput>>

\* help_command and info_command up to their await
TgHelpInfo ==
    /\ frontend = "telegram"
    /\ tgPc = "idle"
    /\ \E user_id \in Users, kind \in {"help", "info"} :
        /\ tgUpdate' = [user |-> user_id, text |-> <<>>, kind |-> kind]
        /\ lastOp' = Op("tg_help_info", kind, user_id, <<>>)
    /\ tgPc' = "cmd_reply"
    /\ lastCall' = NoCall
    /\ UNCHANGED <<envVars, delivered, provider, cliPc, conversation_history, log_file,
                   user_conversations, chatInput>>

\* clear_command up to its await
TgClear ==
    /\ frontend = "telegram"
    /\ tgPc = "idle"
    /\ \E user_id \in Users :
        /\ user_conversations' = clear_user(user_conversations, user_id)
        /\ delivered' = [delivered EXCEPT ![user_id] = <<>>]
        /\ tgUpdate' = [user |-> user_id, text |-> <<>>, kind |-> "clear"]
        /\ lastOp' = Op("tg_clear", "", user_id, <<>>)
    /\ tgPc' = "cmd_reply"
    /\ lastCall' = NoCall
    /\ UNCHANGED <<envVars, provider, cliPc, conversation_history, log_file, chatInput>>

\* the reply_text a command handler awaits; a failure goes to error_handler
TgCommandReplied ==
    /\ frontend = "telegram"
    /\ tgPc = "cmd_reply"
    /\ \E sendOk \in BOOLEAN :
        lastOp' = Op("tg_command_replied", IF sendOk THEN "ok" ELSE "raised", 0, <<>>)
    /\ tgPc' = "idle"
    /\ tgUpdate' = NoUpdate
    /\ lastCall' = NoCall
    /\ UNCHANGED <<envVars, delivered, provider, cliPc, conversation_history, log_file,
                   user_conversations, chatInput>>

\* handle_message up to await send_action("typing")
TgMessage ==
    /\ frontend = "telegram"
    /\ tgPc = "idle"
    /\ TotalMessages(user_conversations) < MaxHist
    /\ \E user_id \in Users, user_message \in TgTexts :
        /\ user_conversations' = ensure_user(user_conversations, user_id)
        /\ delivered' = [delivered EXCEPT ![user_id] =
                             Append(@, [text |-> user_message, entered |-> FALSE])]
        /\ tgUpdate' = [user |-> user_id, text |-> user_message, kind |-> "message"]
        /\ lastOp' = Op("tg_message", "", user_id, user_message)
    /\ tgPc' = "typing"
    /\ lastCall' = NoCall
    /\ UNCHANGED <<envVars, provider, cliPc, conversation_history, log_file, chatInput>>

\* handle_message from the typing indicator to the next await: the user
\* message, the request, provider.chat and the assistant message
TgTurn ==
    /\ frontend = "telegram"
    /\ tgPc = "typing"
    /\ \E sendOk \in BOOLEAN, net \in NetOutcomes, reply \in Replies :
        LET user_id == tgUpdate.user IN
        IF ~sendOk
        THEN /\ Dropped(delivered) < MaxDropped
             /\ tgPc' = "error_reply"
             /\ lastOp' = Op("tg_turn", "typing_failed", user_id, tgUpdate.text)
             /\ lastCall' = NoCall
             /\ UNCHANGED <<provider, user_conversations, delivered>>
        ELSE LET h == Append(user_conversations[user_id], Msg("user", tgUpdate.text))
                 messages == tg_build_messages(config, h)
                 call == ProviderChat(provider, messages, net, reply)
             IN /\ lastCall' = call
                /\ provider' = call.provider_after
                /\ user_conversations' =
                       [user_conversations EXCEPT ![user_id] =
                            history_after_chat(h, call.result)]
                /\ delivered' = [delivered EXCEPT
                                     ![user_id][Len(delivered[user_id])].entered = TRUE]
                /\ tgPc' = IF call.result.kind = "return" THEN "reply" ELSE "error_reply"
                /\ lastOp' = Op("tg_turn",
                                IF call.result.kind = "return" THEN "ok" ELSE "fail",
                                user_id, tgUpdate.text)
    /\ UNCHANGED <<envVars, cliPc, conversation_history, log_file, tgUpdate, chatInput>>

\* await update.message.reply_text(response)
TgReplied ==
    /\ frontend = "telegram"
    /\ tgPc = "reply"
    /\ \E sendOk \in BOOLEAN :
        /\ tgPc' = IF sendOk THEN "idle" ELSE "error_reply"
        /\ tgUpdate' = IF sendOk THEN NoUpdate ELSE tgUpdate
        /\ lastOp' = Op("tg_replied", IF sendOk THEN "ok" ELSE "raised", 0, <<>>)
    /\ lastCall' = NoCall
    /\ UNCHANGED <<envVars, delivered, provider, cliPc, conversation_history, log_file,
                   user_conversations, chatInput>>

\* the reply_text of the except branch; a failure goes to error_handler
TgErrorReplied ==
    /\ frontend = "telegram"
    /\ tgPc = "error_reply"
    /\ \E sendOk \in BOOLEAN :
        lastOp' = Op("tg_error_replied", IF sendOk THEN "ok" ELSE "raised", 0, <<>>)
    /\ tgPc' = "idle"
    /\ tgUpdate' = NoUpdate
    /\ lastCall' = NoCall
    /\ UNCHANGED <<envVars, delivered, provider, cliPc, conversation_history, log_file,
                   user_conversations, chatInput>>

(***************************************************************************)
(* setup.py: the setup wizard                                              *)
(***************************************************************************)
Back == <<"b", "a", "c", "k">>
Exit == <<"e", "x", "i", "t">>
Quit == <<"q", "u", "i", "t">>
Custom == <<"c", "u", "s", "t", "o", "m">>

NavWords == {Back, Exit, Quit}

\* get_input without password: the navigation word in lower case where
\* navigation is allowed, the trimmed line, or the default on an empty line
get_input(line, default, allow_back) ==
    LET value == strip(line) IN
    IF allow_back /\ lower(value) \in NavWords THEN lower(value)
    ELSE IF value # <<>> THEN value ELSE default

Digits == {"1", "2", "3", "4", "5", "6", "7", "8", "9"}

DigitValue(c) ==
    CASE c = "1" -> 1 [] c = "2" -> 2 [] c = "3" -> 3 [] c = "4" -> 4 [] c = "5" -> 5
      [] c = "6" -> 6 [] c = "7" -> 7 [] c = "8" -> 8 [] c = "9" -> 9

\* int(text) over the numerals the model types: one digit, or the default 150
ParseInt(text) ==
    IF Len(text) = 1 /\ text[1] \in Digits THEN [ok |-> TRUE, v |-> DigitValue(text[1])]
    ELSE IF text = <<"1", "5", "0">> THEN [ok |-> TRUE, v |-> 150]
    ELSE [ok |-> FALSE, v |-> 0]

\* float(text), in tenths: one digit, or the default 0.7
ParseFloat(text) ==
    IF Len(text) = 1 /\ text[1] \in Digits
    THEN [ok |-> TRUE, v |-> 10 * DigitValue(text[1])]
    ELSE IF text = <<"0", ".", "7">> THEN [ok |-> TRUE, v |-> 7]
    ELSE [ok |-> FALSE, v |-> 0]

Chosen(value) == [again |-> FALSE, value |-> value]
AskAgain == [again |-> TRUE, value |-> <<>>]

\* one pass of the loop of get_choice: the value returned, or the prompt again
get_choice(line, choices, default, allow_custom) ==
    LET choice_input == strip(line) IN
    IF lower(choice_input) \in NavWords THEN Chosen(lower(choice_input))
    ELSE IF choice_input = <<>> /\ default # <<>> THEN Chosen(default)
    ELSE IF ParseInt(choice_input).ok
    THEN IF 1 <= ParseInt(choice_input).v /\ ParseInt(choice_input).v <= Len(choices)
         THEN Chosen(choices[ParseInt(choice_input).v])
         ELSE AskAgain
    ELSE IF allow_custom /\ choice_input # <<>> THEN Chosen(choice_input)
    ELSE AskAgain

\* the keys of providers_info, in the order they are listed
provider_list == <<<<"o", "p", "e", "n", "a", "i">>, <<"a", "n", "t", "h", "r", "o", "p", "i", "c">>, <<"c", "o", "h", "e", "r", "e">>, <<"g", "r", "o", "q">>, <<"o", "l", "l", "a", "m", "a">>>>

Ollama == <<"o", "l", "l", "a", "m", "a">>

\* providers_info[choice]['default_model']
default_model(choice) ==
    CASE choice = <<"o", "p", "e", "n", "a", "i">> -> <<"g", "p", "t", "-", "3", ".", "5", "-", "t", "u", "r", "b", "o">>
      [] choice = <<"a", "n", "t", "h", "r", "o", "p", "i", "c">> -> <<"c", "l", "a", "u", "d", "e", "-", "3", "-", "s", "o", "n", "n", "e", "t", "-", "2", "0", "2", "4", "0", "2", "2", "9">>
      [] choice = <<"c", "o", "h", "e", "r", "e">> -> <<"c", "o", "m", "m", "a", "n", "d">>
      [] choice = <<"g", "r", "o", "q">> -> <<"g", "r", "o", "q", "/", "c", "o", "m", "p", "o", "u", "n", "d">>
      [] choice = <<"o", "l", "l", "a", "m", "a">> -> <<"l", "l", "a", "m", "a", "2">>

\* providers_info[choice]['models'] + ['custom']
model_options(choice) ==
    CASE choice = <<"o", "p", "e", "n", "a", "i">> ->
            <<<<"g", "p", "t", "-", "3", ".", "5", "-", "t", "u", "r", "b", "o">>, <<"g", "p", "t", "-", "4">>, <<"g", "p", "t", "-", "4", "-", "t", "u", "r", "b", "o", "-", "p", "r", "e", "v", "i", "e", "w">>, <<"g", "p", "t", "-", "3", ".", "5", "-", "t", "u", "r", "b", "o", "-", "1", "6", "k">>, Custom>>
      [] choice = <<"a", "n", "t", "h", "r", "o", "p", "i", "c">> ->
            <<<<"c", "l", "a", "u", "d", "e", "-", "3", "-", "s", "o", "n", "n", "e", "t", "-", "2", "0", "2", "4", "0", "2", "2", "9">>, <<"c", "l", "a", "u", "d", "e", "-", "3", "-", "o", "p", "u", "s", "-", "2", "0", "2", "4", "0", "2", "2", "9">>,
              <<"c", "l", "a", "u", "d", "e", "-", "3", "-", "h", "a", "i", "k", "u", "-", "2", "0", "2", "4", "0", "3", "0", "7">>, Custom>>
      [] choice = <<"c", "o", "h", "e", "r", "e">> -> <<<<"c", "o", "m", "m", "a", "n", "d">>, <<"c", "o", "m", "m", "a", "n", "d", "-", "l", "i", "g", "h", "t">>, <<"c", "o", "m", "m", "a", "n", "d", "-", "n", "i", "g", "h", "t", "l", "y">>, Custom>>
      [] choice = <<"g", "r", "o", "q">> ->
            <<<<"g", "r", "o", "q", "/", "c", "o", "m", "p", "o", "u", "n", "d">>, <<"g", "r", "o", "q", "/", "c", "o", "m", "p", "o", "u", "n", "d", "-", "m", "i", "n", "i">>, <<"l", "l", "a", "m", "a", "-", "3", ".", "3", "-", "7", "0", "b", "-", "v", "e", "r", "s", "a", "t", "i", "l", "e">>,
              <<"l", "l", "a", "m", "a", "-", "3", ".", "1", "-", "8", "b", "-", "i", "n", "s", "t", "a", "n", "t">>, <<"g", "e", "m", "m", "a", "2", "-", "9", "b", "-", "i", "t">>,
              <<"d", "e", "e", "p", "s", "e", "e", "k", "-", "r", "1", "-", "d", "i", "s", "t", "i", "l", "l", "-", "l", "l", "a", "m", "a", "-", "7", "0", "b">>, <<"o", "p", "e", "n", "a", "i", "/", "g", "p", "t", "-", "o", "s", "s", "-", "1", "2", "0", "b">>,
              Custom, Custom>>
      [] choice = <<"o", "l", "l", "a", "m", "a">> -> <<<<"l", "l", "a", "m", "a", "2">>, <<"c", "o", "d", "e", "l", "l", "a", "m", "a">>, <<"m", "i", "s", "t", "r", "a", "l">>, Custom, Custom>>

\* preset_instructions, each text cut to its distinguishing word
preset_instructions(choice) ==
    CASE choice = <<"1">> -> <<"h", "e", "l", "p", "f", "u", "l">>
      [] choice = <<"2">> -> <<"c", "o", "d", "i", "n", "g">>
      [] choice = <<"3">> -> <<"c", "r", "e", "a", "t", "i", "v", "e">>
      [] choice = <<"4">> -> <<"c", "u", "s", "t", "o", "m", "e", "r">>

PresetChoices == {<<"1">>, <<"2">>, <<"3">>, <<"4">>}

\* str.startswith('y') of the lower-cased text
StartsWithY(text) == text # <<>> /\ lower(text)[1] = "y"

With(cfg, key, value) ==
    [k \in DOMAIN cfg \cup {key} |-> IF k = key THEN value ELSE cfg[k]]

\* the keys show_summary reads
SummaryKeys ==
    {"bot_name", "api_provider", "model", "temperature", "max_tokens", "bot_instructions"}

\* the first prompt of steps[step]
FirstPrompt(step) ==
    CASE step = 0 -> "bot_name" [] step = 1 -> "provider" [] step = 2 -> "temperature"

\* variant: the loop of run without show_summary after it
AfterStepNoSummary(result, step, cfg) ==
    IF result = Exit THEN [pc |-> "cancelled", step |-> step]
    ELSE IF result = Back
    THEN IF step > 0 THEN [pc |-> FirstPrompt(step - 1), step |-> step - 1]
         ELSE [pc |-> FirstPrompt(step), step |-> step]
    ELSE IF step + 1 < 3 THEN [pc |-> FirstPrompt(step + 1), step |-> step + 1]
    ELSE [pc |-> "confirm", step |-> step + 1]

\* the body of the while loop of run for the result a step returned, and,
\* once the loop is left, show_summary with its KeyError
AfterStep(result, step, cfg) ==
    IF result = Exit THEN [pc |-> "cancelled", step |-> step]
    ELSE IF result = Back
    THEN IF step > 0 THEN [pc |-> FirstPrompt(step - 1), step |-> step - 1]
         ELSE [pc |-> FirstPrompt(step), step |-> step]
    ELSE IF step + 1 < 3 THEN [pc |-> FirstPrompt(step + 1), step |-> step + 1]
    ELSE IF SummaryKeys \subseteq DOMAIN cfg THEN [pc |-> "confirm", step |-> step + 1]
    ELSE [pc |-> "error", step |-> step + 1]

WizPrompts ==
    {"overwrite", "bot_name", "preset", "provider", "model", "custom_model", "api_key",
     "ollama_url", "temperature", "max_tokens", "save_conversation",
     "conversation_file", "show_token_usage", "confirm", "install"}

\* the lines typed at each prompt: Enter alone, the navigation words in
\* some spelling, a numeral in and out of range, a word, a value
WizLines(prompt) ==
    CASE prompt = "bot_name" ->
            {<<>>, <<"A", "r", "i", "a">>, Back, Exit, <<" ", "Q", "U", "I", "T", " ">>}
      [] prompt = "preset" ->
            {<<"1">>, <<"5">>, <<"7">>, <<>>, Back, <<"E", "x", "i", "t">>, Quit}
      [] prompt = "provider" ->
            {<<>>, <<"5">>, <<"9">>, <<"x">>, Back, Exit, Quit, <<"Q", "U", "I", "T">>}
      [] prompt = "model" ->
            {<<>>, <<"1">>, Custom, <<"m">>, Back, Exit, Quit}
      [] prompt = "custom_model" ->
            {<<>>, <<"m">>, Back, Exit}
      [] prompt = "api_key" ->
            {<<>>, <<"k">>, Exit}
      [] prompt = "ollama_url" ->
            {<<>>, Back, Exit}
      [] prompt = "temperature" ->
            {<<>>, <<"2">>, <<"h", "o", "t">>, Back, Exit}
      [] prompt = "max_tokens" ->
            {<<>>, <<"9">>, Back, Quit}
      [] prompt = "save_conversation" ->
            {<<>>, <<"n">>, Back, Exit}
      [] prompt = "conversation_file" ->
            {<<>>, Back, Exit}
      [] prompt = "show_token_usage" ->
            {<<>>, <<"Y">>, Back, Exit}
      [] prompt = "overwrite" ->
            {<<>>, <<"y">>, <<"Y", "e", "s">>, <<"n">>, Exit}
      [] prompt = "confirm" ->
            {<<>>, <<"n">>, <<"Y">>, Exit, Quit}
      [] prompt = "install" ->
            {<<>>, <<"n">>}

\* the lines typed as custom instructions, joined
CustomInstructions == {<<>>, <<"B", "e", " ", "k", "i", "n", "d">>}

\* the record of a prompt answered: the prompt, the step it belongs to, the
\* line typed and the value the prompt function returned
Prompted(prompt, step, line, returned) ==
    [op |-> "wizard", outcome |-> prompt, user |-> step, input |-> returned, line |-> line]

wizardFrame == <<overwrite, frontend, config, env, reachable, sdk_installed, cfgPc, answer, provider,
                 cliPc, conversation_history, log_file, tgPc, tgUpdate,
                 user_conversations, delivered, chatInput, lastCall>>
wizardEnv == <<frontend, config, env, reachable, sdk_installed, cfgPc, answer, provider,
               cliPc, conversation_history, log_file, tgPc, tgUpdate,
               user_conversations, delivered, chatInput, lastCall>>

\* the step function goes on to its next prompt
WizGoOn(pc, cfg, settings) ==
    /\ wizPc' = pc
    /\ wizConfig' = cfg
    /\ wizSettings' = settings
    /\ UNCHANGED <<current_step, file, wizWrites, wizardFrame>>

\* the step function returns result to the loop of run
WizReturn(result, cfg) ==
    LET after == AfterStep(result, current_step, cfg) IN
    /\ wizPc' = after.pc
    /\ current_step' = after.step
    /\ wizConfig' = cfg
    /\ wizSettings' = EmptyDict
    /\ UNCHANGED <<file, wizWrites, wizardFrame>>

\* run ends without saving
WizEnd(pc) ==
    /\ wizPc' = pc
    /\ UNCHANGED <<current_step, wizConfig, wizSettings, file, wizWrites, wizardFrame>>

\* run up to its first prompt
WizStart ==
    /\ frontend = "wizard"
    /\ wizPc = "start"
    /\ wizPc' = IF file.exists THEN "overwrite" ELSE "bot_name"
    /\ lastOp' = Prompted("start", 0, <<>>, <<>>)
    /\ UNCHANGED <<current_step, wizConfig, wizSettings, file, wizWrites, wizardFrame>>

\* "config.json already exists. Overwrite? (y/n)"
WizOverwrite ==
    /\ frontend = "wizard"
    /\ wizPc = "overwrite"
    /\ \E line \in WizLines("overwrite") :
        /\ overwrite' = get_input(line, <<"n">>, FALSE)
        /\ lastOp' = Prompted("overwrite", current_step, line, overwrite')
        /\ wizPc' = IF overwrite' \in {Exit, Quit} \/ ~StartsWithY(overwrite')
                    THEN "cancelled" ELSE "bot_name"
    /\ UNCHANGED <<current_step, wizConfig, wizSettings, file, wizWrites, wizardEnv>>

\* Ctrl-C or end of input at any prompt
WizInterrupt ==
    /\ frontend = "wizard"
    /\ wizPc \in WizPrompts
    /\ \E how \in {"KeyboardInterrupt", "EOFError"} :
        /\ lastOp' = Prompted(how, current_step, <<>>, <<>>)
        /\ WizEnd(IF how = "KeyboardInterrupt" THEN "cancelled" ELSE "error")

\* setup_basic_info: "What should your bot be called?"
WizBotName ==
    /\ frontend = "wizard"
    /\ wizPc = "bot_name"
    /\ \E line \in WizLines("bot_name") :
        LET bot_name_input == get_input(line, <<"A", "s", "s", "i", "s", "t", "a", "n", "t">>, TRUE) IN
        /\ lastOp' = Prompted("bot_name", current_step, line, bot_name_input)
        /\ IF bot_name_input \in {Exit, Quit} THEN WizReturn(Exit, wizConfig)
           ELSE IF bot_name_input = Back THEN WizReturn(Back, wizConfig)
           ELSE WizGoOn("preset", With(wizConfig, "bot_name", JText(bot_name_input)),
                        wizSettings)

\* setup_basic_info: one pass of the loop over the preset prompt, the custom
\* lines included
WizPreset ==
    /\ frontend = "wizard"
    /\ wizPc = "preset"
    /\ \E line \in WizLines("preset"), lines \in CustomInstructions :
        LET choice == strip(line) IN
        /\ lastOp' = Prompted("preset", current_step, line, choice)
        /\ IF lower(choice) \in {Exit, Quit} THEN WizReturn(Exit, wizConfig)
           ELSE IF lower(choice) = Back THEN WizReturn(Back, wizConfig)
           ELSE IF choice = <<"5">>
           THEN WizReturn(<<"n", "e", "x", "t">>,
                    With(wizConfig, "bot_instructions",
                         JText(IF lines # <<>> THEN lines
                               ELSE preset_instructions(<<"1">>))))
           ELSE IF choice \in PresetChoices
           THEN WizReturn(<<"n", "e", "x", "t">>,
                    With(wizConfig, "bot_instructions", JText(preset_instructions(choice))))
           ELSE WizGoOn("preset", wizConfig, wizSettings)

\* setup_provider: "Choose your AI provider:", one pass of the loop of get_choice
WizProvider ==
    /\ frontend = "wizard"
    /\ wizPc = "provider"
    /\ \E line \in WizLines("provider") :
        LET got == get_choice(line, provider_list, <<"g", "r", "o", "q">>, FALSE)
            choice == got.value IN
        /\ lastOp' = Prompted("provider", current_step, line, choice)
        /\ IF got.again THEN WizGoOn("provider", wizConfig, wizSettings)
           ELSE IF choice \in {Exit, Quit, Back} THEN WizReturn(choice, wizConfig)
           ELSE WizGoOn("model", With(wizConfig, "api_provider", JText(choice)), wizSettings)

\* setup_provider from self.config['model'] = model_choice to its next prompt
ModelChosen(cfg, model_choice) ==
    IF cfg["api_provider"].v # Ollama
    THEN [pc |-> "api_key", cfg |-> With(cfg, "model", JText(model_choice))]
    ELSE [pc |-> "ollama_url",
          cfg |-> With(With(cfg, "model", JText(model_choice)), "api_key", JText(<<>>))]

\* setup_provider: "Choose a model (or type your own custom model name):"
WizModel ==
    /\ frontend = "wizard"
    /\ wizPc = "model"
    /\ \E line \in WizLines("model") :
        LET choice == wizConfig["api_provider"].v
            got == get_choice(line, model_options(choice), default_model(choice), TRUE)
            model_choice == got.value IN
        /\ lastOp' = Prompted("model", current_step, line, model_choice)
        /\ IF got.again THEN WizGoOn("model", wizConfig, wizSettings)
           ELSE IF model_choice \in {Exit, Quit} THEN WizReturn(Exit, wizConfig)
           ELSE IF model_choice = Back THEN WizReturn(Back, wizConfig)
           ELSE IF model_choice = Custom THEN WizGoOn("custom_model", wizConfig, wizSettings)
           ELSE WizGoOn(ModelChosen(wizConfig, model_choice).pc,
                        ModelChosen(wizConfig, model_choice).cfg, wizSettings)

\* setup_provider: "Enter custom model name"; back starts setup_provider again
WizCustomModel ==
    /\ frontend = "wizard"
    /\ wizPc = "custom_model"
    /\ \E line \in WizLines("custom_model") :
        LET custom_model == get_input(line, default_model(wizConfig["api_provider"].v), TRUE) IN
        /\ lastOp' = Prompted("custom_model", current_step, line, custom_model)
        /\ IF custom_model \in {Exit, Quit} THEN WizReturn(Exit, wizConfig)
           ELSE IF custom_model = Back THEN WizGoOn("provider", wizConfig, wizSettings)
           ELSE WizGoOn(ModelChosen(wizConfig, custom_model).pc,
                        ModelChosen(wizConfig, custom_model).cfg, wizSettings)

\* setup_provider: "Enter your ... API key", which takes every line as the key
WizApiKey ==
    /\ frontend = "wizard"
    /\ wizPc = "api_key"
    /\ \E line \in WizLines("api_key") :
        LET api_key_input == get_input(line, <<>>, FALSE) IN
        /\ lastOp' = Prompted("api_key", current_step, line, api_key_input)
        /\ WizReturn(<<"n", "e", "x", "t">>, With(wizConfig, "api_key", JText(api_key_input)))

\* setup_provider: "Ollama server URL"
WizOllamaUrl ==
    /\ frontend = "wizard"
    /\ wizPc = "ollama_url"
    /\ \E line \in WizLines("ollama_url") :
        LET ollama_url == get_input(line, <<"h", "t", "t", "p", ":", "/", "/", "l", "o", "c", "a", "l", "h", "o", "s", "t", ":", "1", "1", "4", "3", "4">>, TRUE) IN
        /\ lastOp' = Prompted("ollama_url", current_step, line, ollama_url)
        /\ IF ollama_url \in {Exit, Quit} THEN WizReturn(Exit, wizConfig)
           ELSE IF ollama_url = Back THEN WizReturn(Back, wizConfig)
           ELSE WizReturn(<<"n", "e", "x", "t">>, With(wizConfig, "ollama_url", JText(ollama_url)))

\* setup_advanced_settings: "Temperature (0.0-2.0, higher = more creative)"
WizTemperature ==
    /\ frontend = "wizard"
    /\ wizPc = "temperature"
    /\ \E line \in WizLines("temperature") :
        LET temp_input == get_input(line, <<"0", ".", "7">>, TRUE) IN
        /\ lastOp' = Prompted("temperature", current_step, line, temp_input)
        /\ IF temp_input \in {Exit, Quit} THEN WizReturn(Exit, wizConfig)
           ELSE IF temp_input = Back THEN WizReturn(Back, wizConfig)
           ELSE WizGoOn("max_tokens",
                    With(wizConfig, "temperature",
                         JNum(IF ParseFloat(temp_input).ok THEN ParseFloat(temp_input).v
                              ELSE 7)),
                    wizSettings)

\* setup_advanced_settings: "Maximum response length (tokens)"
WizMaxTokens ==
    /\ frontend = "wizard"
    /\ wizPc = "max_tokens"
    /\ \E line \in WizLines("max_tokens") :
        LET tokens_input == get_input(line, <<"1", "5", "0">>, TRUE) IN
        /\ lastOp' = Prompted("max_tokens", current_step, line, tokens_input)
        /\ IF tokens_input \in {Exit, Quit} THEN WizReturn(Exit, wizConfig)
           ELSE IF tokens_input = Back THEN WizReturn(Back, wizConfig)
           ELSE WizGoOn("save_conversation",
                    With(wizConfig, "max_tokens",
                         JNum(IF ParseInt(tokens_input).ok THEN ParseInt(tokens_input).v
                              ELSE 150)),
                    EmptyDict)

\* setup_advanced_settings: "Save conversations to file? (y/n)"
WizSaveConv ==
    /\ frontend = "wizard"
    /\ wizPc = "save_conversation"
    /\ \E line \in WizLines("save_conversation") :
        LET save_conv == get_input(line, <<"y">>, TRUE) IN
        /\ lastOp' = Prompted("save_conversation", current_step, line, save_conv)
        /\ IF save_conv \in {Exit, Quit} THEN WizReturn(Exit, wizConfig)
           ELSE IF save_conv = Back THEN WizReturn(Back, wizConfig)
           ELSE WizGoOn(IF StartsWithY(save_conv) THEN "conversation_file"
                        ELSE "show_token_usage",
                        wizConfig,
                        With(wizSettings, "save_conversation", JBool(StartsWithY(save_conv))))

\* setup_advanced_settings: "Conversation file name"
WizConvFile ==
    /\ frontend = "wizard"
    /\ wizPc = "conversation_file"
    /\ \E line \in WizLines("conversation_file") :
        LET conv_file == get_input(line, <<"c", "h", "a", "t", "_", "h", "i", "s", "t", "o", "r", "y", ".", "t", "x", "t">>, TRUE) IN
        /\ lastOp' = Prompted("conversation_file", current_step, line, conv_file)
        /\ IF conv_file \in {Exit, Quit} THEN WizReturn(Exit, wizConfig)
           ELSE IF conv_file = Back THEN WizReturn(Back, wizConfig)
           ELSE WizGoOn("show_token_usage", wizConfig,
                        With(wizSettings, "conversation_file", JText(conv_file)))

\* setup_advanced_settings: "Show token usage info? (y/n)"
WizShowTokens ==
    /\ frontend = "wizard"
    /\ wizPc = "show_token_usage"
    /\ \E line \in WizLines("show_token_usage") :
        LET show_tokens == get_input(line, <<"n">>, TRUE) IN
        /\ lastOp' = Prompted("show_token_usage", current_step, line, show_tokens)
        /\ IF show_tokens \in {Exit, Quit} THEN WizReturn(Exit, wizConfig)
           ELSE IF show_tokens = Back THEN WizReturn(Back, wizConfig)
           ELSE WizReturn(<<"n", "e", "x", "t">>,
                    With(wizConfig, "settings",
                         JDict(With(wizSettings, "show_token_usage",
                                    JBool(StartsWithY(show_tokens))))))

\* variant: every answer but exit and quit leads to save_config
ConfirmedUnlessLeft(confirm) == confirm \notin {Exit, Quit}

\* run: whether the answer to "Save this configuration? (y/n)" leads to save_config
Confirmed(confirm) == confirm \notin {Exit, Quit} /\ StartsWithY(confirm)

\* what save_config can do to config.json: dump the document, fail to open
\* the file, or fail after the open has truncated it
SaveOutcomes == {"saved", "open_failed", "write_failed"}

\* run: "Save this configuration? (y/n)" and save_config
WizConfirm ==
    /\ frontend = "wizard"
    /\ wizPc = "confirm"
    /\ \E line \in WizLines("confirm"), saving \in SaveOutcomes :
        LET confirm == get_input(line, <<"y">>, FALSE) IN
        /\ lastOp' = Prompted("confirm", current_step, line, confirm)
        /\ IF ~Confirmed(confirm)
           THEN /\ wizPc' = "cancelled"
                /\ UNCHANGED <<file, wizWrites>>
           ELSE /\ wizPc' = IF saving = "saved" THEN "install" ELSE "failed"
                /\ file' = CASE saving = "saved" -> JsonFile(JDict(wizConfig))
                             [] saving = "open_failed" -> file
                             [] saving = "write_failed" -> MalformedFile
                /\ wizWrites' = IF saving = "open_failed" THEN wizWrites ELSE wizWrites + 1
    /\ UNCHANGED <<current_step, wizConfig, wizSettings, wizardFrame>>

\* run: "Install required Python packages? (y/n)"
WizInstall ==
    /\ frontend = "wizard"
    /\ wizPc = "install"
    /\ \E line \in WizLines("install") :
        /\ lastOp' = Prompted("install", current_step, line, get_input(line, <<"y">>, FALSE))
        /\ WizEnd("done")

(***************************************************************************)
(* provider.chat called directly on any message list                       *)
(***************************************************************************)
ChatDirect ==
    /\ frontend = "direct"
    /\ \E net \in NetOutcomes, reply \in Replies :
        LET call == ProviderChat(provider, chatInput, net, reply) IN
        /\ lastCall' = call
        /\ provider' = call.provider_after
        /\ chatInput' = call.messages_after
        /\ lastOp' = Op("chat", IF call.result.kind = "return" THEN "ok" ELSE "fail",
                        0, <<>>)
    /\ UNCHANGED <<envVars, cliPc, conversation_history, log_file, tgVars>>

(***************************************************************************)
(* Configurations and initial states                                       *)
(***************************************************************************)
Only(k, values) == {[x \in {k} |-> v] : v \in values}

Optional(k, values) == {EmptyDict} \cup Only(k, values)

DefaultModel(name) ==
    CASE LowerName(name) = "openai" -> "gpt-3.5-turbo"
      [] LowerName(name) = "anthropic" -> "claude-3-sonnet-20240229"
      [] LowerName(name) = "cohere" -> "command"
      [] LowerName(name) = "ollama" -> "llama2"
      [] LowerName(name) = "groq" -> "groq/compound"
      [] OTHER -> "gpt-3.5-turbo"

Instructions == {<<>>, <<"S">>}

\* the four required fields of a loaded configuration
Required(name, instructions, modelName) ==
    [k \in {"bot_name", "bot_instructions", "api_provider", "model"} |->
        CASE k = "bot_name" -> JStr("Aria")
          [] k = "bot_instructions" -> JText(instructions)
          [] k = "api_provider" -> JStr(name)
          [] k = "model" -> JStr(modelName)]

\* the provider names of a chat session: one SDK provider, the local one
\* and a name that is not registered (every provider's request is formed
\* under ChatSpec)
SessionProviders == {"anthropic", "ollama", "foo"}

\* configurations of a chat session: any instruction, any session provider
SessionConfigs ==
    {Required(n, i, DefaultModel(n)) @@ k @@ t @@ x @@ tok :
        n \in SessionProviders, i \in Instructions,
        k \in Only("api_key", {JStr("k")}),
        t \in Only("temperature", {JNum(7)}),
        x \in Only("max_tokens", {JNum(150)}),
        tok \in Only("telegram_bot_token", {JStr("t")})}

CliConfigs ==
    SessionConfigs \cup
    {Required("groq", <<"S">>, "groq/compound") @@ [k \in {"api_key"} |-> JStr("k")] @@ s :
        s \in Only("settings",
                  {JDict([k \in {"save_conversation"} |-> JBool(b)]) : b \in BOOLEAN})}

TgConfigs ==
    {c \in SessionConfigs : api_provider(c) # "ollama"} \cup
    {Required("groq", <<"S">>, "groq/compound") @@ tok :
        tok \in Optional("telegram_bot_token", {JStr("")})}

\* configurations at startup: keys, models and numbers in and out of range
StartupConfigs ==
    {Required(n, <<"S">>, IF custom THEN "my-new-model" ELSE DefaultModel(n))
         @@ k @@ t @@ x @@ tok :
        n \in PROVIDERS \cup {"Groq", "foo"},
        custom \in BOOLEAN,
        k \in Optional("api_key", {JStr(""), JStr("k")}),
        t \in Optional("temperature",
                       {JNum(0 - 1), JNum(0), JNum(20), JNum(21), JStr("hot")}),
        x \in Optional("max_tokens", {JNum(0), JNum(1)}),
        tok \in Optional("telegram_bot_token", {JStr("t")})}

Envs(cfg) ==
    {EmptyDict} \cup
    {[x \in {EnvNamesOf(cfg)[i]} |-> "e"] : i \in 1..3}

\* documents for Config.get: nested settings, a setting that is no mapping,
\* stored false, 0 and ""
SettingsValues ==
    {JDict(EmptyDict), JStr("on"),
     JDict([k \in {"save_conversation"} |-> JBool(FALSE)]),
     JDict([k \in {"save_conversation", "depth"} |->
               IF k = "depth" THEN JDict([x \in {"x"} |-> JNum(0)]) ELSE JBool(TRUE)])}

GetDocs ==
    {Required("groq", <<"S">>, "groq/compound") @@ s @@ k :
        s \in Optional("settings", SettingsValues),
        k \in Optional("api_key", {JStr("")})}

\* documents for api_key: the provider name in either case, the key absent,
\* empty or set
KeyDocs ==
    {Required(n, <<"S">>, "groq/compound") @@ k :
        n \in {"groq", "Groq"},
        k \in Optional("api_key", {JStr(""), JStr("k")})}

\* documents for validate: numbers in and out of range, and values that
\* are no numbers
ValidateDocs ==
    {Required("groq", <<"S">>, "groq/compound") @@ k @@ t @@ x :
        k \in Optional("api_key", {JStr(""), JStr("k")}),
        t \in Optional("temperature",
                       {JNum(0 - 1), JNum(0), JNum(20), JNum(21), JStr("hot"), JNull}),
        x \in Optional("max_tokens", {JNum(0), JNum(1), JStr("many")})}

Without(f, k) == [x \in DOMAIN f \ {k} |-> f[x]]

\* documents that lack required fields or are no mapping
BrokenDocs ==
    {JDict(Without(Required("groq", <<"S">>, "groq/compound"), RequiredFields[i])) :
        i \in 1..4}
    \cup {JDict(EmptyDict), JNum(5), JNull, JList(<<>>),
          JList([i \in 1..4 |-> JStr(RequiredFields[i])]),
          JList([i \in 1..3 |-> JStr(RequiredFields[i])]),
          JStr(AllNamesString), JStr("hello")}

ConfigFiles ==
    {AbsentFile, MalformedFile}
    \cup {JsonFile(j) : j \in BrokenDocs}
    \cup {JsonFile(JDict(d)) : d \in GetDocs \cup KeyDocs \cup ValidateDocs}

\* one variable of the environment: unset, empty or set
EnvVar(name, value) ==
    {[x \in {} |-> ""]} \cup {[x \in {name} |-> v] : v \in {"", value}}

\* every setting of the three variables Config.api_key probes
FullEnvs(cfg) ==
    {a @@ b @@ c : a \in EnvVar(EnvNamesOf(cfg)[1], "e1"),
                   b \in EnvVar(EnvNamesOf(cfg)[2], "e2"),
                   c \in EnvVar(EnvNamesOf(cfg)[3], "e3")}

FileEnvs(f) ==
    IF f.wellformed /\ f.doc.t = "dict" /\ f.doc.v \in KeyDocs THEN FullEnvs(f.doc.v)
    ELSE IF f.wellformed /\ f.doc.t = "dict" /\ f.doc.v \in ValidateDocs
    THEN {[x \in {} |-> ""], [x \in {<<"", "API_KEY">>} |-> "e3"]}
    ELSE {[x \in {} |-> ""]}

Messages == [role : Roles, content : {<<"a">>, <<"b">>}]

MessageLists == UNION {[1..n -> Messages] : n \in 0..MaxMsgs}

\* configurations of a provider that is called directly: every registered
\* name, the two numbers left to their defaults or set
DirectConfigs ==
    {Required(n, <<"S">>, "m") @@ [k \in {"api_key"} |-> JStr("k")] @@ t @@ x :
        n \in PROVIDERS,
        t \in Optional("temperature", {JNum(20)}),
        x \in Optional("max_tokens", {JNum(1)})}

InitCommon ==
    /\ file = NoFile
    /\ cfgPc = "loaded"
    /\ answer = NoAnswer
    /\ wizPc = "none"
    /\ current_step = 0
    /\ wizConfig = EmptyDict
    /\ wizSettings = EmptyDict
    /\ overwrite = <<>>
    /\ wizWrites = 0
    /\ provider = NoProvider
    /\ cliPc = "init"
    /\ conversation_history = <<>>
    /\ log_file = <<>>
    /\ tgPc = "init"
    /\ tgUpdate = NoUpdate
    /\ user_conversations = [u \in {} |-> <<>>]
    /\ delivered = NoneDelivered
    /\ chatInput = <<>>
    /\ lastOp = NoOp
    /\ lastCall = NoCall

Init ==
    /\ frontend \in {"cli", "telegram"}
    /\ config \in IF frontend = "cli" THEN CliConfigs ELSE TgConfigs
    /\ env = EmptyDict
    /\ reachable \in IF frontend = "cli" /\ LowerName(api_provider(config)) = "ollama"
                     THEN BOOLEAN ELSE {TRUE}
    /\ sdk_installed = TRUE
    /\ InitCommon

Next ==
    \/ CliStartup
    \/ CliQuit
    \/ CliInterrupt
    \/ CliClear
    \/ CliPrint
    \/ CliSave
    \/ CliChat
    \/ TgStartup
    \/ TgStart
    \/ TgHelpInfo
    \/ TgClear
    \/ TgCommandReplied
    \/ TgMessage
    \/ TgTurn
    \/ TgReplied
    \/ TgErrorReplied

Spec == Init /\ [][Next]_vars

\* startup alone, over the wide set of configurations
InitStartup ==
    /\ frontend \in {"cli", "telegram"}
    /\ config \in StartupConfigs
    /\ env \in Envs(config)
    /\ reachable \in IF LowerName(api_provider(config)) = "ollama" THEN BOOLEAN ELSE {TRUE}
    /\ sdk_installed \in BOOLEAN
    /\ InitCommon

NextStartup ==
    \/ CliStartup
    \/ TgStartup

StartupSpec == InitStartup /\ [][NextStartup]_vars

\* provider.chat alone, over every bounded message list
\* a config.json left by an earlier setup
OldConfigFile ==
    JsonFile(JDict(Required("openai", <<"h", "e", "l", "p", "f", "u", "l">>, "gpt-4")))

InitWizard ==
    /\ frontend = "wizard"
    /\ config = EmptyDict
    /\ env = EmptyDict
    /\ reachable = TRUE
    /\ sdk_installed = TRUE
    /\ file \in {AbsentFile, MalformedFile, OldConfigFile}
    /\ cfgPc = "loaded"
    /\ answer = NoAnswer
    /\ wizPc = "start"
    /\ current_step = 0
    /\ wizConfig = EmptyDict
    /\ wizSettings = EmptyDict
    /\ overwrite = <<>>
    /\ wizWrites = 0
    /\ provider = NoProvider
    /\ cliPc = "init"
    /\ conversation_history = <<>>
    /\ log_file = <<>>
    /\ tgPc = "init"
    /\ tgUpdate = NoUpdate
    /\ user_conversations = [u \in {} |-> <<>>]
    /\ delivered = NoneDelivered
    /\ chatInput = <<>>
    /\ lastOp = NoOp
    /\ lastCall = NoCall

NextWizard ==
    \/ WizStart
    \/ WizOverwrite
    \/ WizInterrupt
    \/ WizBotName
    \/ WizPreset
    \/ WizProvider
    \/ WizModel
    \/ WizCustomModel
    \/ WizApiKey
    \/ WizOllamaUrl
    \/ WizTemperature
    \/ WizMaxTokens
    \/ WizSaveConv
    \/ WizConvFile
    \/ WizShowTokens
    \/ WizConfirm
    \/ WizInstall

WizardSpec == InitWizard /\ [][NextWizard]_vars

InitChat ==
    /\ frontend = "direct"
    /\ config \in DirectConfigs
    /\ env = EmptyDict
    /\ reachable = TRUE
    /\ sdk_installed = TRUE
    /\ file = NoFile
    /\ cfgPc = "loaded"
    /\ answer = NoAnswer
    /\ wizPc = "none"
    /\ current_step = 0
    /\ wizConfig = EmptyDict
    /\ wizSettings = EmptyDict
    /\ overwrite = <<>>
    /\ wizWrites = 0
    /\ cliPc = "init"
    /\ conversation_history = <<>>
    /\ log_file = <<>>
    /\ tgPc = "init"
    /\ tgUpdate = NoUpdate
    /\ user_conversations = [u \in {} |-> <<>>]
    /\ delivered = NoneDelivered
    /\ provider = create_provider(config, env, sdk_installed).instance
    /\ chatInput \in MessageLists
    /\ lastOp = NoOp
    /\ lastCall = NoCall

NextChat == ChatDirect

ChatSpec == InitChat /\ [][NextChat]_vars

\* a Config object on its own: loading, then get, api_key and validate
InitConfig ==
    /\ frontend = "config"
    /\ file \in ConfigFiles
    /\ config = EmptyDict
    /\ env \in FileEnvs(file)
    /\ reachable = TRUE
    /\ sdk_installed = TRUE
    /\ cfgPc = "start"
    /\ answer = NoAnswer
    /\ wizPc = "none"
    /\ current_step = 0
    /\ wizConfig = EmptyDict
    /\ wizSettings = EmptyDict
    /\ overwrite = <<>>
    /\ wizWrites = 0
    /\ provider = NoProvider
    /\ cliPc = "init"
    /\ conversation_history = <<>>
    /\ log_file = <<>>
    /\ tgPc = "init"
    /\ tgUpdate = NoUpdate
    /\ user_conversations = [u \in {} |-> <<>>]
    /\ delivered = NoneDelivered
    /\ chatInput = <<>>
    /\ lastOp = NoOp
    /\ lastCall = NoCall

NextConfig ==
    \/ ConfigLoad
    \/ ConfigGet
    \/ ConfigApiKey
    \/ ConfigValidate

ConfigSpec == InitConfig /\ [][NextConfig]_vars

(***************************************************************************)
(* Properties                                                              *)
(***************************************************************************)
IsPrefix(a, b) == Len(a) <= Len(b) /\ SubSeq(b, 1, Len(a)) = a

NotSystem(m) == m.role # "system"

IsAssistant(m) == m.role = "assistant"

\* the system message the configuration calls for, read off the document
ExpectedSystem ==
    IF config["bot_instructions"].v # <<>>
    THEN <<[role |-> "system", content |-> config["bot_instructions"].v]>>
    ELSE <<>>

\* C1: the list handed to provider.chat by a chat turn (CLI or Telegram) is
\* the system message when bot_instructions is non-empty, then the whole
\* history as it stood, in order, ending with the user message of the turn.
C1_RequestIsSystemThenHistory ==
    [][ /\ (lastOp'.op = "cli_chat") =>
              /\ lastCall'.called
              /\ lastCall'.messages =
                    ExpectedSystem
                    \o Append(conversation_history, [role |-> "user", content |-> lastOp'.input])
        /\ (lastOp'.op = "tg_turn" /\ lastOp'.outcome # "typing_failed") =>
              /\ lastCall'.called
              /\ lastCall'.messages =
                    ExpectedSystem
                    \o Append(user_conversations[tgUpdate.user],
                              [role |-> "user", content |-> tgUpdate.text])
      ]_vars

\* a CLI turn, after an earlier successful one, with a system instruction
C1_Witness ==
    /\ lastOp.op = "cli_chat"
    /\ lastCall.called
    /\ Len(lastCall.messages) = 4
    /\ lastCall.messages[1].role = "system"
    /\ lastCall.messages[3].role = "assistant"

\* C2: no stored history, of the CLI or of any Telegram user, ever holds a
\* message with role "system".
C2_NoSystemInHistory ==
    /\ \A i \in 1..Len(conversation_history) :
          conversation_history[i].role \in {"user", "assistant"}
    /\ \A u \in DOMAIN user_conversations :
          \A i \in 1..Len(user_conversations[u]) :
              user_conversations[u][i].role \in {"user", "assistant"}

\* a request carrying a system message was built and answered
C2_Witness ==
    /\ lastOp.op = "cli_chat"
    /\ lastOp.outcome = "ok"
    /\ lastCall.called
    /\ lastCall.messages[1].role = "system"
    /\ Len(conversation_history) >= 2

\* C3: a failed provider call leaves the history as it was plus the user
\* message of the turn, and the session goes on: the CLI loop keeps
\* running, the Telegram handler sends its error reply and returns.
C3_FailureKeepsUserMessage ==
    [][ /\ (lastOp'.op = "cli_chat" /\ lastOp'.outcome = "fail") =>
              /\ conversation_history' =
                    Append(conversation_history, [role |-> "user", content |-> lastOp'.input])
              /\ cliPc' = "running"
        /\ (lastOp'.op = "tg_turn" /\ lastOp'.outcome = "fail") =>
              /\ user_conversations' =
                    [user_conversations EXCEPT ![tgUpdate.user] =
                        Append(@, [role |-> "user", content |-> tgUpdate.text])]
              /\ tgPc' = "error_reply"
        /\ (lastOp'.op = "tg_error_replied" /\ lastOp'.outcome = "ok") => tgPc' = "idle"
      ]_vars

\* a turn that succeeds after a failed one
C3_Witness ==
    /\ lastOp.op = "cli_chat"
    /\ lastOp.outcome = "ok"
    /\ Len(conversation_history) = 3
    /\ conversation_history[1].role = "user"
    /\ conversation_history[2].role = "user"
    /\ conversation_history[3].role = "assistant"

\* C4: every step other than a clear command keeps each history as a
\* prefix of the history after it, and a successful chat turn adds exactly
\* a user message and then an assistant message.
C4_AppendOnly ==
    [][ /\ (lastOp'.op # "cli_clear") =>
              IsPrefix(conversation_history, conversation_history')
        /\ (lastOp'.op # "tg_clear") =>
              \A u \in DOMAIN user_conversations :
                  /\ u \in DOMAIN user_conversations'
                  /\ IsPrefix(user_conversations[u], user_conversations'[u])
        /\ (lastOp'.op = "cli_chat" /\ lastOp'.outcome = "ok") =>
              /\ Len(conversation_history') = Len(conversation_history) + 2
              /\ conversation_history'[Len(conversation_history) + 1].role = "user"
              /\ conversation_history'[Len(conversation_history) + 2].role = "assistant"
        /\ (lastOp'.op = "tg_turn" /\ lastOp'.outcome = "ok") =>
              LET before == user_conversations[tgUpdate.user]
                  after == user_conversations'[tgUpdate.user]
              IN /\ Len(after) = Len(before) + 2
                 /\ after[Len(before) + 1].role = "user"
                 /\ after[Len(before) + 2].role = "assistant"
      ]_vars

\* a second successful CLI turn
C4_Witness ==
    /\ lastOp.op = "cli_chat"
    /\ lastOp.outcome = "ok"
    /\ Len(conversation_history) = 4

\* C5: right after clear, the request built from the history is the system
\* message alone, or the empty list when bot_instructions is empty; clear
\* changes neither the configuration nor the provider.
C5_ClearThenBuild ==
    /\ [](lastOp.op = "cli_clear" =>
            get_messages_for_api(config, conversation_history) = ExpectedSystem)
    /\ [][lastOp'.op \in {"cli_clear", "tg_clear"} =>
            config' = config /\ provider' = provider]_vars

\* clear has run on a history that held messages
C5_Witness ==
    /\ lastOp.op = "cli_clear"
    /\ lastOp.outcome = "had_history"
    /\ config["bot_instructions"].v # <<>>

\* C6: a groq configuration with a key, in-range numbers and a model name
\* outside the known list still reaches the chat loop.
C6_GroqUnknownModelStarts ==
    ( /\ lastOp.op = "cli_startup"
      /\ provider.name = "groq"
      /\ provider.api_key # ""
      /\ provider.temperature >= 0 /\ provider.temperature <= 20
      /\ provider.max_tokens >= 1
      /\ provider.model \notin GroqModels )
    => cliPc = "running"

SystemIndices(ms) == {i \in 1..Len(ms) : ms[i].role = "system"}

UserIndices(ms) == {i \in 1..Len(ms) : ms[i].role = "user"}

LastUserIndex(ms) ==
    IF UserIndices(ms) = {} THEN 0
    ELSE CHOOSE i \in UserIndices(ms) : \A j \in UserIndices(ms) : j <= i

Relabel(ms) == [i \in 1..Len(ms) |-> [role |-> "CHATBOT", message |-> ms[i].content]]

\* C7: for a list with at most one system message, the Anthropic request
\* carries that message's content as its system field ("" when there is
\* none) and the other messages, unchanged and in order, as its turn list.
C7_AnthropicFormat ==
    ( /\ lastCall.called
      /\ provider.name = "anthropic"
      /\ Cardinality(SystemIndices(lastCall.messages)) <= 1 )
    => /\ lastCall.request.system =
            (IF SystemIndices(lastCall.messages) = {} THEN <<>>
             ELSE lastCall.messages[CHOOSE i \in SystemIndices(lastCall.messages) : TRUE].content)
       /\ lastCall.request.messages = SelectSeq(lastCall.messages, NotSystem)

\* the system message sits between two turns
C7_Witness ==
    /\ lastCall.called
    /\ provider.name = "anthropic"
    /\ Len(lastCall.messages) = 3
    /\ SystemIndices(lastCall.messages) = {2}

\* C8 as stated: the Cohere chat history is the assistant messages that
\* precede the most recent user message.
C8_HistoryPrecedesLastUser ==
    ( /\ lastCall.called
      /\ provider.name = "cohere"
      /\ LastUserIndex(lastCall.messages) > 0 )
    => LET k == LastUserIndex(lastCall.messages) IN
       /\ lastCall.request.message = lastCall.messages[k].content
       /\ lastCall.request.chat_history =
             Relabel(SelectSeq(SubSeq(lastCall.messages, 1, k - 1), IsAssistant))

\* C8 amended: the Cohere request has no system field, its current message
\* is the content of the most recent user message ("" when there is none),
\* and its chat history is every assistant message of the input, in order,
\* relabeled CHATBOT; when the list ends with a user message these are the
\* assistant messages that precede it.
C8_CohereFormat ==
    ( /\ lastCall.called
      /\ provider.name = "cohere" )
    => LET k == LastUserIndex(lastCall.messages) IN
       /\ "system" \notin DOMAIN lastCall.request
       /\ lastCall.request.message =
             (IF k = 0 THEN <<>> ELSE lastCall.messages[k].content)
       /\ lastCall.request.chat_history =
             Relabel(SelectSeq(lastCall.messages, IsAssistant))
       /\ (k > 0 /\ k = Len(lastCall.messages)) =>
             lastCall.request.chat_history =
                 Relabel(SelectSeq(SubSeq(lastCall.messages, 1, k - 1), IsAssistant))

\* two user messages around an assistant message
C8_Witness ==
    /\ lastCall.called
    /\ provider.name = "cohere"
    /\ Len(lastCall.messages) = 3
    /\ lastCall.messages[1].role = "user"
    /\ lastCall.messages[2].role = "assistant"
    /\ lastCall.messages[3].role = "user"
    /\ lastCall.messages[1].content # lastCall.messages[3].content

\* C9: OpenAI, Groq and Ollama send the list they were given, with the
\* bound model, temperature and max_tokens; Ollama's envelope has
\* stream = false; chat changes neither the list nor the provider.
C9_PassThrough ==
    /\ []( ( /\ lastCall.called
             /\ provider.name \in {"openai", "groq", "ollama"} )
           => /\ lastCall.request.messages = chatInput
              /\ lastCall.request.model = provider.model
              /\ (provider.name = "ollama" =>
                    /\ lastCall.request.stream = FALSE
                    /\ lastCall.request.options.temperature = provider.temperature
                    /\ lastCall.request.options.num_predict = provider.max_tokens)
              /\ (provider.name # "ollama" =>
                    /\ lastCall.request.temperature = provider.temperature
                    /\ lastCall.request.max_tokens = provider.max_tokens) )
    /\ [][lastCall'.called => (chatInput' = chatInput /\ provider' = provider)]_vars

\* Ollama was called with a list that holds a system message
C9_Witness ==
    /\ lastCall.called
    /\ provider.name = "ollama"
    /\ Len(lastCall.messages) = 3
    /\ SystemIndices(lastCall.messages) # {}

\* the prefix of the error each provider raises
ErrorPrefix(name) ==
    CASE name = "openai" -> "OpenAI API error"
      [] name = "anthropic" -> "Anthropic API error"
      [] name = "cohere" -> "Cohere API error"
      [] name = "ollama" -> "Ollama API error"
      [] name = "groq" -> "Groq API error"

\* C10: one invocation of chat makes one network call and either returns
\* the reply text or raises the provider's wrapped error, whatever the
\* failure, a response without the reply field included.
C10_OneCallWrappedError ==
    lastCall.called =>
        /\ lastCall.calls = 1
        /\ IF lastCall.net = "ok"
           THEN lastCall.result.kind = "return" /\ lastCall.result.text \in Replies
           ELSE /\ lastCall.result.kind = "raise"
                /\ lastCall.result.exc = "Exception"
                /\ lastCall.result.prefix = ErrorPrefix(provider.name)

(***************************************************************************)
(* Properties of the Config object (ConfigSpec)                            *)
(***************************************************************************)
SameJson(a, b) == a.t = b.t /\ a.v = b.v

IsMapping(j) == j.t = "dict"

\* the value a walk of one, two or three segments ends at, read off the
\* document, or the default
WalkOf(segments, default) ==
    LET has1 == segments[1] \in DOMAIN config
        has2 == /\ has1
                /\ IsMapping(config[segments[1]])
                /\ segments[2] \in DOMAIN config[segments[1]].v
        has3 == /\ has2
                /\ IsMapping(config[segments[1]].v[segments[2]])
                /\ segments[3] \in DOMAIN config[segments[1]].v[segments[2]].v
    IN CASE Len(segments) = 1 -> IF has1 THEN config[segments[1]] ELSE default
         [] Len(segments) = 2 ->
                IF has2 THEN config[segments[1]].v[segments[2]] ELSE default
         [] Len(segments) = 3 ->
                IF has3 THEN config[segments[1]].v[segments[2]].v[segments[3]]
                ELSE default

\* C11: Config.get(dottedKey, default) returns the default as soon as a
\* segment is absent or the value reached is no mapping, otherwise the value
\* at the last segment, a stored false, 0 or "" included, and it leaves the
\* configuration as it was.
C11_GetWalksSegments ==
    [][answer'.op = "get" =>
          /\ config' = config
          /\ SameJson(answer'.value, WalkOf(split(answer'.key), answer'.default))]_vars

\* get returned a stored false at the end of a two-segment key although the
\* default was true
C11_Witness ==
    /\ answer.op = "get"
    /\ answer.key = <<"settings", ".", "save_conversation">>
    /\ answer.default = JBool(TRUE)
    /\ answer.value = JBool(FALSE)

EnvValue(prefix, suffix) ==
    IF <<prefix, suffix>> \in DOMAIN env THEN env[<<prefix, suffix>>] ELSE ""

ConfigKey == IF "api_key" \in DOMAIN config THEN config["api_key"].v ELSE ""

\* C12: a non-empty api_key of the configuration is the result whatever the
\* environment holds; otherwise the result is the first non-empty one of
\* GROQ_API_KEY, GROQAPI_KEY and API_KEY (the provider of every document
\* here is groq, in either case), and it is empty exactly when the
\* configured key and the three variables are all empty or unset.
C12_ApiKeyResolution ==
    answer.op = "api_key" =>
        LET v1 == EnvValue("GROQ", "_API_KEY")
            v2 == EnvValue("GROQ", "API_KEY")
            v3 == EnvValue("", "API_KEY")
        IN /\ answer.value.v =
                 (IF ConfigKey # "" THEN ConfigKey
                  ELSE IF v1 # "" THEN v1 ELSE IF v2 # "" THEN v2 ELSE v3)
           /\ (answer.value.v = "") <=>
                 (ConfigKey = "" /\ v1 = "" /\ v2 = "" /\ v3 = "")

\* the key came from the second variable: the configured key is empty, the
\* first variable is set but empty, the third is set as well
C12_Witness ==
    /\ answer.op = "api_key"
    /\ config["api_provider"].v = "Groq"
    /\ ConfigKey = ""
    /\ <<"GROQ", "_API_KEY">> \in DOMAIN env
    /\ EnvValue("GROQ", "_API_KEY") = ""
    /\ EnvValue("", "API_KEY") = "e3"
    /\ answer.value.v = "e2"

\* the raw number of the document, or the property's default
RawNumber(key, default) == IF key \in DOMAIN config THEN config[key] ELSE JNum(default)

Holds(issues, issue) == \E i \in 1..Len(issues) : issues[i] = issue

\* C13: validate never raises on a loaded configuration: it returns a list
\* that holds the API-key issue, the temperature issue and the max_tokens
\* issue, each exactly when its condition holds.
C13_ValidateNeverRaises ==
    answer.op = "validate" =>
        /\ answer.outcome = "ok"
        /\ answer.value.t = "list"
        /\ Holds(answer.value.v, "No API key found")
              <=> (/\ ConfigKey = ""
                   /\ EnvValue("GROQ", "_API_KEY") = ""
                   /\ EnvValue("GROQ", "API_KEY") = ""
                   /\ EnvValue("", "API_KEY") = "")
        /\ Holds(answer.value.v, "Temperature should be between 0 and 2.")
              <=> (RawNumber("temperature", 7).v < 0 \/ RawNumber("temperature", 7).v > 20)
        /\ Holds(answer.value.v, "Max tokens should be greater than 0.")
              <=> RawNumber("max_tokens", 150).v < 1

HoldsRequired(j) ==
    /\ IsMapping(j)
    /\ \A i \in 1..4 : RequiredFields[i] \in DOMAIN j.v

\* C14: loading ends in one of three ways: FileNotFoundError for an absent
\* file; ValueError for a file that is no JSON, no mapping or a mapping
\* without one of the four required fields, the error then naming a field
\* that is missing; success otherwise, so that what a constructed Config
\* holds is a mapping with the four required fields.
C14_LoadOutcomes ==
    answer.op = "load" =>
        /\ ~file.exists => answer.outcome = "FileNotFoundError"
        /\ (file.exists /\ ~(file.wellformed /\ HoldsRequired(file.doc)))
              => answer.outcome = "ValueError"
        /\ (file.exists /\ file.wellformed /\ IsMapping(file.doc)
              /\ ~HoldsRequired(file.doc))
              => /\ \E i \in 1..4 : answer.default.v = RequiredFields[i]
                 /\ answer.default.v \notin DOMAIN file.doc.v
        /\ (file.exists /\ file.wellformed /\ HoldsRequired(file.doc))
              => answer.outcome = "ok"
        /\ answer.outcome = "ok" => HoldsRequired(answer.value)

(***************************************************************************)
(* Properties of the factory and of startup                                *)
(***************************************************************************)
\* the registered name a configured name stands for, whatever its case
RegisteredFor(name) ==
    CASE name \in {"openai", "anthropic", "cohere", "ollama", "groq"} -> name
      [] name = "Groq" -> "groq"
      [] name = "OLLAMA" -> "ollama"
      [] OTHER -> "none"

\* the startup step called the factory
FactoryCalled ==
    /\ lastOp.op \in {"cli_startup", "tg_startup"}
    /\ lastOp.outcome # "no_token"

FactoryFailed == lastOp.outcome \in {"unknown_provider", "conversion_error", "import_error"}

ListsAllNames(names) ==
    /\ Len(names) = 5
    /\ {names[i] : i \in 1..Len(names)} = {"openai", "anthropic", "cohere", "ollama", "groq"}

NumbersConvert ==
    /\ RawNumber("temperature", 7).t = "num"
    /\ RawNumber("max_tokens", 150).t = "num"

\* C15 as stated: every name that matches a registered name after
\* lower-casing yields an instance of that name's class, and every other
\* name fails with the error that lists the five names.
C15_MatchYieldsInstance ==
    FactoryCalled =>
        IF RegisteredFor(config["api_provider"].v) = "none"
        THEN lastOp.outcome = "unknown_provider" /\ ListsAllNames(lastOp.input)
        ELSE ~FactoryFailed /\ provider.name = RegisteredFor(config["api_provider"].v)

\* C15, amended: the name is looked up after lower-casing; a name that is
\* not registered fails with the error that lists the five names; a name
\* that is registered selects its class, and the call yields an instance
\* of that class unless the constructor fails, with the conversion error
\* of a temperature or max_tokens that is no number or with the
\* ImportError of a provider package that is not installed.
C15_FactoryLookup ==
    FactoryCalled =>
        LET registered == RegisteredFor(config["api_provider"].v) IN
        IF registered = "none"
        THEN /\ lastOp.outcome = "unknown_provider"
             /\ ListsAllNames(lastOp.input)
             /\ provider = NoProvider
        ELSE IF ~NumbersConvert
        THEN lastOp.outcome = "conversion_error" /\ provider = NoProvider
        ELSE IF registered # "ollama" /\ ~sdk_installed
        THEN lastOp.outcome = "import_error" /\ provider = NoProvider
        ELSE ~FactoryFailed /\ provider.name = registered

\* a name written in mixed case gave an instance of the registered class
C15_Witness ==
    /\ FactoryCalled
    /\ config["api_provider"].v = "Groq"
    /\ provider.name = "groq"

\* C16: the instance the factory returns is bound to the model, the
\* temperature and the max_tokens of the configuration (the defaults 0.7
\* and 150 where the document has none), and every request it sends
\* carries these values.
C16_BoundParameters ==
    /\ provider.model = config["model"].v
    /\ provider.temperature = RawNumber("temperature", 7).v
    /\ provider.max_tokens = RawNumber("max_tokens", 150).v
    /\ lastCall.called =>
          /\ lastCall.request.model = config["model"].v
          /\ IF provider.name = "ollama"
             THEN /\ lastCall.request.options.temperature = RawNumber("temperature", 7).v
                  /\ lastCall.request.options.num_predict = RawNumber("max_tokens", 150).v
             ELSE /\ lastCall.request.temperature = RawNumber("temperature", 7).v
                  /\ lastCall.request.max_tokens = RawNumber("max_tokens", 150).v

\* a request went out for a configuration that sets both numbers
C16_Witness ==
    /\ lastCall.called
    /\ "temperature" \in DOMAIN config
    /\ "max_tokens" \in DOMAIN config
    /\ provider.name = "cohere"
    /\ lastCall.request.temperature = 20
    /\ lastCall.request.max_tokens = 1

\* C20: the CLI started on an Ollama configuration with an empty api_key,
\* no credential in the environment, numbers in range and a server that
\* answers reaches the chat loop.
C20_OllamaNeedsNoKey ==
    ( /\ lastOp.op = "cli_startup"
      /\ config["api_provider"].v = "ollama"
      /\ "api_key" \in DOMAIN config
      /\ config["api_key"].v = ""
      /\ DOMAIN env = {}
      /\ NumbersConvert
      /\ RawNumber("temperature", 7).v >= 0 /\ RawNumber("temperature", 7).v <= 20
      /\ RawNumber("max_tokens", 150).v >= 1
      /\ reachable )
    => (cliPc = "running" /\ lastOp.outcome = "ok")

(***************************************************************************)
(* Properties of the CLI dispatch                                          *)
(***************************************************************************)
\* the step handled a line typed at the prompt
LineStep(op) == op \in {"cli_quit", "cli_clear", "cli_print", "cli_save", "cli_chat"}

EndWords == {<<"q","u","i","t">>, <<"e","x","i","t">>, <<"b","y","e">>}

PrintWords ==
    {<<"h","e","l","p">>, <<"c","o","n","f","i","g">>, <<"h","i","s","t","o","r","y">>,
     <<"s","a","v","e">>}

CommandWords == EndWords \cup PrintWords \cup {<<"c","l","e","a","r">>}

\* C17: a line typed at the prompt is a chat turn, its trimmed text
\* appended to the history as a user message and sent to the provider,
\* exactly when the trimmed line is non-empty and is not, in any case of
\* its letters, one of the eight command words; help, config, history, save
\* and the empty line leave the history as it was and call no provider;
\* and handling a line ends the session exactly for quit, exit and bye.
C17_CliDispatch ==
    [][LineStep(lastOp'.op) =>
          LET trimmed == strip(lastOp'.line)
              word == lower(trimmed)
              entry == [role |-> "user", content |-> trimmed]
          IN /\ (lastOp'.op = "cli_chat") <=> (trimmed # <<>> /\ word \notin CommandWords)
             /\ lastOp'.op = "cli_chat" =>
                   /\ Len(conversation_history') > Len(conversation_history)
                   /\ conversation_history'[Len(conversation_history) + 1] = entry
                   /\ lastCall'.called
                   /\ lastCall'.messages[Len(lastCall'.messages)] = entry
             /\ (word \in PrintWords \/ trimmed = <<>>) =>
                   /\ conversation_history' = conversation_history
                   /\ ~lastCall'.called
             /\ (cliPc' = "ended") <=> (word \in EndWords)]_vars

\* a line with blanks around its text was a chat turn
C17_Witness ==
    /\ lastOp.op = "cli_chat"
    /\ lastOp.line = <<" ", "y", "o", " ">>
    /\ lastCall.called
    /\ conversation_history[1] = [role |-> "user", content |-> <<"y", "o">>]

(***************************************************************************)
(* Properties of the Telegram bridge                                       *)
(***************************************************************************)
TgStep(op) ==
    op \in {"tg_start", "tg_help_info", "tg_clear", "tg_message", "tg_turn",
            "tg_command_replied", "tg_replied", "tg_error_replied"}

\* the step neither created, removed nor changed the history of user u
Untouched(u) ==
    /\ (u \in DOMAIN user_conversations') <=> (u \in DOMAIN user_conversations)
    /\ u \in DOMAIN user_conversations => user_conversations'[u] = user_conversations[u]

\* C18: a step of a Telegram handler touches only the history of the user
\* who sent the update: every other user's history stays as it was; /clear
\* empties the sender's history and creates none for a sender without one;
\* /start, /help and /info change no history that exists; and the request
\* of a message is built from the sender's history alone.
C18_OnlyTheSendersHistory ==
    [][TgStep(lastOp'.op) =>
          LET sender == lastOp'.user IN
          /\ \A other \in Users \ {sender} : Untouched(other)
          /\ lastOp'.op = "tg_clear" =>
                IF sender \in DOMAIN user_conversations
                THEN user_conversations'[sender] = <<>>
                ELSE sender \notin DOMAIN user_conversations'
          /\ lastOp'.op \in {"tg_start", "tg_help_info"} =>
                \A u \in DOMAIN user_conversations :
                    user_conversations'[u] = user_conversations[u]
          /\ (lastOp'.op = "tg_turn" /\ lastCall'.called) =>
                SelectSeq(lastCall'.messages, NotSystem) =
                    Append(user_conversations[sender],
                           [role |-> "user", content |-> lastOp'.input])]_vars

\* user 1 cleared a history while user 2 holds messages
C18_Witness ==
    /\ lastOp.op = "tg_clear"
    /\ lastOp.user = 1
    /\ 1 \in DOMAIN user_conversations
    /\ 2 \in DOMAIN user_conversations
    /\ user_conversations[1] = <<>>
    /\ Len(user_conversations[2]) >= 2

IsUser(m) == m.role = "user"

IsEntered(d) == d.entered

\* the contents of the user entries of a message list, in order
UserTexts(ms) ==
    LET us == SelectSeq(ms, IsUser) IN [i \in 1..Len(us) |-> us[i].content]

DeliveredTexts(ds) == [i \in 1..Len(ds) |-> ds[i].text]

\* C19 as stated: when the request for a message is sent, the user entries
\* of the request and of the sender's history are the messages delivered
\* for that user since the last /clear, in the order of delivery.
C19_DeliveredInOrder ==
    (lastOp.op = "tg_turn" /\ lastCall.called) =>
        /\ UserTexts(lastCall.messages) = DeliveredTexts(delivered[lastOp.user])
        /\ UserTexts(user_conversations[lastOp.user])
              = DeliveredTexts(delivered[lastOp.user])

\* C19, amended: the user entries of a history are, in the order of
\* delivery, the messages delivered for that user since the last /clear
\* whose typing indicator was sent, and the request for a message holds
\* all of them up to that message; a message whose typing indicator fails
\* is answered with the error reply and enters neither.
C19_EnteredInOrder ==
    /\ \A u \in DOMAIN user_conversations :
          UserTexts(user_conversations[u])
              = DeliveredTexts(SelectSeq(delivered[u], IsEntered))
    /\ (lastOp.op = "tg_turn" /\ lastCall.called) =>
          UserTexts(lastCall.messages)
              = DeliveredTexts(SelectSeq(delivered[lastOp.user], IsEntered))

\* the request for a second message of user 1 went out after the first
\* message of user 1 had entered the history
C19_Witness ==
    /\ lastOp.op = "tg_turn"
    /\ lastOp.user = 1
    /\ lastCall.called
    /\ Len(delivered[1]) = 2
    /\ delivered[1][1].entered /\ delivered[1][2].entered
    /\ delivered[1][1].text # delivered[1][2].text
    /\ UserTexts(lastCall.messages) = <<delivered[1][1].text, delivered[1][2].text>>


(***************************************************************************)
(* Properties of the setup wizard (WizardSpec)                             *)
(***************************************************************************)
\* the prompts of the three steps that take back, exit and quit
NavPrompts == WizPrompts \ {"overwrite", "api_key", "confirm", "install"}

\* the navigation word a typed line stands for, if any
NavWord(line) == lower(strip(line))

\* C21: exit or quit typed at a prompt of the three steps that takes
\* navigation commands cancels the setup, without advancing to a later step
\* and without writing config.json; back moves to the previous step, and at
\* the first step stays at the first step.
C21_NavigationCommands ==
    [][(lastOp'.op = "wizard" /\ lastOp'.outcome \in NavPrompts /\ wizPc = lastOp'.outcome)
        => /\ NavWord(lastOp'.line) \in {Exit, Quit}
                => /\ wizPc' = "cancelled"
                   /\ current_step' = current_step
                   /\ file' = file
                   /\ wizWrites' = wizWrites
           /\ NavWord(lastOp'.line) = Back
                => /\ current_step' = IF current_step > 0 THEN current_step - 1 ELSE 0
                   /\ wizPc' = FirstPrompt(current_step')]_vars

\* C26: config.json is written at most once per run, only once the loop has
\* moved past all three steps and the final prompt was answered with a value
\* starting with y, and, where the file existed, only if the overwrite prompt
\* was answered with y too; every other step of the run leaves the file as
\* it was.
C26_WriteOnceAfterConfirm ==
    [][(file' # file \/ wizWrites' # wizWrites)
        => /\ wizWrites = 0
           /\ wizWrites' = 1
           /\ wizPc = "confirm"
           /\ current_step = 3
           /\ lastOp'.outcome = "confirm"
           /\ StartsWithY(lastOp'.input)
           /\ file.exists => StartsWithY(overwrite)]_vars

\* an existing config.json has been overwritten with the document built
C26_Witness ==
    /\ wizPc = "install"
    /\ wizWrites = 1
    /\ StartsWithY(overwrite)
    /\ file = JsonFile(JDict(wizConfig))

\* C27: whatever the navigation was, a config.json the wizard has written
\* holds bot_name, bot_instructions, api_provider and model, temperature and
\* max_tokens, so that loading it does not fail on a missing required field.
C27_WrittenFileLoads ==
    wizWrites > 0
    => /\ ~(load_config(file).outcome = "ValueError" /\ load_config(file).field # "")
       /\ file.wellformed
            => /\ load_config(file).outcome = "ok"
               /\ SummaryKeys \subseteq DOMAIN file.doc.v

\* a file written after the provider step was left and entered again
C27_Witness ==
    /\ wizPc = "done"
    /\ wizWrites = 1
    /\ file.wellformed
    /\ "ollama_url" \in DOMAIN file.doc.v
    /\ file.doc.v["api_provider"].v # Ollama


(***************************************************************************)
(* Properties of the CLI session's end and of the histories (Spec)         *)
(***************************************************************************)
\* settings.save_conversation is true, or is absent
SavingEnabled ==
    "settings" \in DOMAIN config
        => config["settings"].v["save_conversation"] = JBool(TRUE)

\* the step ends the CLI session: quit, exit or bye, Ctrl-C, or end of input
ExitStep == cliPc = "running" /\ lastOp'.op \in {"cli_quit", "cli_interrupt"}

\* the step is the save command
SaveStep == cliPc = "running" /\ lastOp'.op = "cli_save"

\* the log with one more block, which holds the whole history
Saved == Append(log_file, Len(conversation_history))

CurrentInput ==
    IF frontend = "cli" THEN strip(lastOp.line)
    ELSE delivered[lastOp.user][Len(delivered[lastOp.user])].text

\* C23: whenever a front end calls provider.chat, after any successful
\* turns, failed turns and clears, the last message of the list it passes is
\* a user message whose content is the input of the current turn (trimmed in
\* the CLI), which is also the current message of Cohere's format.
C23_LastIsCurrentInput ==
    lastCall.called
    => /\ lastOp.op \in {"cli_chat", "tg_turn"}
       /\ lastCall.messages # <<>>
       /\ lastCall.messages[Len(lastCall.messages)] = Msg("user", CurrentInput)
       /\ CohereSplit(lastCall.messages, <<>>, <<>>).message = CurrentInput

\* a call of the CLI for a line typed with blanks around it, after a failed
\* turn whose user message is still in the list
C23_Witness ==
    /\ lastCall.called
    /\ frontend = "cli"
    /\ lastOp.line # strip(lastOp.line)
    /\ Len(lastCall.messages) >= 2
    /\ lastCall.messages[Len(lastCall.messages) - 1].role = "user"

\* every history of the state: the CLI's and each Telegram user's
Histories ==
    {conversation_history} \cup {user_conversations[u] : u \in DOMAIN user_conversations}

\* each assistant message of h comes right after a user message
Alternates(h) ==
    \A i \in 1..Len(h) : h[i].role = "assistant" => i > 1 /\ h[i - 1].role = "user"

\* how a step took history h to history g: not at all, by clearing it, by a
\* turn that succeeded, or by a turn that failed
TurnOrClear(h, g) ==
    \/ g = h
    \/ g = <<>>
    \/ /\ lastCall'.called
       /\ lastCall'.result.kind = "return"
       /\ Len(g) = Len(h) + 2
       /\ SubSeq(g, 1, Len(h)) = h
       /\ g[Len(g) - 1].role = "user"
       /\ g[Len(g)] = Msg("assistant", lastCall'.result.text)
    \/ /\ lastCall'.called
       /\ lastCall'.result.kind = "raise"
       /\ Len(g) = Len(h) + 1
       /\ SubSeq(g, 1, Len(h)) = h
       /\ g[Len(g)].role = "user"

\* C24: in every state a step leads to (the histories start empty) each
\* assistant message of every history (the CLI's, each Telegram user's) is
\* immediately preceded by a user message, so
\* no history starts with an assistant message or holds two in a row; and a
\* user message is left without its reply, so that two user messages can
\* follow each other, only by a turn whose call failed.
C24_Alternation ==
    [][/\ \A h \in Histories' : Alternates(h)
       /\ TurnOrClear(conversation_history, conversation_history')
       /\ \A u \in DOMAIN user_conversations' :
            TurnOrClear(IF u \in DOMAIN user_conversations
                        THEN user_conversations[u] ELSE <<>>,
                        user_conversations'[u])]_vars

\* a history with two user messages in a row, then a reply
C24_Witness ==
    \E h \in Histories :
        /\ Len(h) = 3
        /\ h[1].role = "user" /\ h[2].role = "user" /\ h[3].role = "assistant"

====
